---- MODULE Spec2Model ----
(***************************************************************************)
(* git-doc: the commit store, the summarization engine (POST               *)
(* /api/summarize and its client drain loop), the job coordinator (POST    *)
(* and GET /api/analyze) with the analyze page that polls it, and the      *)
(* report compiler (POST /api/export), as state machines.                  *)
(*                                                                         *)
(* Every await of a handler is a point where another request may run, so   *)
(* a handler is a sequence of actions, one per await.                      *)
(***************************************************************************)
EXTENDS Integers, Sequences, FiniteSets, TLC

(***************************************************************************)
(* Bounds of the model.                                                    *)
(***************************************************************************)
\* Rows the commit store may hold.
MaxCommits == 2
\* Rows of the backlog that concurrent summarize requests run over.
MaxRace == 1
\* Analysis jobs that may be submitted.
MaxJobs == 2
\* Commits one history walk may find.
MaxWalk == 2
\* Status polls of the analyze page that may be in flight at a time.
MaxInFlight == 2
\* Analyses one session of the analyze page may start.
MaxAnalyses == 1
\* Commits the store may hold when an export is requested.
MaxExport == 2
\* Commits of the backlog a single summarize request runs over.
BacklogSize == 11
\* Repository and credential requests that may be in flight at a time.
MaxCrud == 2
\* Rows the Repository table may hold.
MaxRepoRows == 2
\* Repositories one export may cover when their names are arbitrary.
MaxNamed == 3
\* Characters of a bounded commit title or body.
MaxText == 3

(***************************************************************************)
(* Program constants.                                                      *)
(***************************************************************************)
\* findMany({ take: 10 })
BatchSize == 10
\* .slice(0, 31)
SheetNameLimit == 31

\* Repositories that exist, and the ids a request may name.
Repositories == {"r1", "r2"}
RepoIds == Repositories \cup {"r9"}
\* The shas a history walk may observe; the commit date of a sha is fixed by
\* the commit it names.
Shas == {"a", "b"}
CommitDate(sha) == IF sha = "a" THEN 1 ELSE 2
\* The requests that may run /api/summarize at the same time.
Callers == {"c1", "c2"}
\* runBatch scope: one repository, or none.
NoRepo == "any"
Scopes == Repositories \cup {NoRepo}

Null == "<null>"

VARIABLES
  commits,        \* Commit table: a set of rows
  lastUpsert,     \* what the last upsert reported
  pc,             \* per summarize request: its position in POST
  scope,          \* per summarize request: body.repoId
  batch,          \* per summarize request: the rows findMany returned (ids)
  idx,            \* per summarize request: position of the for loop
  successCount,
  failCount,
  rateLimited,
  result,         \* per summarize request: the JSON it returned
  drain,          \* per client: state of runSummarization
  totalSuccess,
  totalFailed,
  hasMore,
  selectedRepo,   \* per client: the scope its drain sends
  lastResult,     \* per client: the last response its drain read
  jobs,           \* AnalysisJob table: a set of rows
  dispatch,       \* per job: the fetch to the extraction service
  counted,        \* jobs whose history walk has reported its total
  lastSubmit,     \* the last response of POST /api/analyze
  clientJob,      \* analyze page: the job state the component holds
  started,        \* analyze page: jobs whose submit response it has read
  polls,          \* analyze page: status polls in flight
  lastRead,       \* per job: the projection GET /api/analyze returned last
  seenTerminal,   \* analyze page: a poll has returned COMPLETED or FAILED
  expPc,          \* export request: its position in POST
  expFilter,      \* export request: the parsed body
  expCommits,     \* export request: the rows findMany returned, in order
  expRepos,       \* export request: the repositories still to be written
  generatedFiles, \* export request: descriptors of the files written
  generatorAnswers, \* export request: what the narrative generator answered
  exportsDir,     \* the exports directory: file name -> workbook
  exportJobs,     \* ExportJob table
  expResponse,    \* export request: the JSON it returned
  credentials,    \* Credential table: the ids that exist
  repoTable,      \* Repository table: rows with their credentialId
  crud,           \* per repository/credential request: its position
  onDelete,       \* what the store does to references of a deleted credential
  repoNames,      \* naming: the names of the repositories of one export
  namePc,         \* naming: position of the loop over the repositories
  sheetNames,     \* naming: the sheets added to the workbook in hand
  namedFiles,     \* naming: generatedFiles
  namedDir,       \* naming: the exports directory, file name -> repository
  rawCommit,      \* ingestion: the title and the body of the commit in hand
  ticket          \* ingestion: the key and the URL extracted from it

sumVars == <<pc, scope, batch, idx, successCount, failCount, rateLimited,
             result>>
drainVars == <<drain, selectedRepo, totalSuccess, totalFailed, hasMore, lastResult>>
storeVars == <<commits, lastUpsert>>
jobVars == <<jobs, dispatch, counted, lastSubmit>>
pollVars == <<clientJob, started, polls, lastRead, seenTerminal>>
expVars == <<expPc, expFilter, expCommits, expRepos, generatedFiles,
             generatorAnswers, exportsDir, exportJobs, expResponse>>
crudVars == <<credentials, repoTable, crud, onDelete>>
nameVars == <<repoNames, namePc, sheetNames, namedFiles, namedDir>>
parseVars == <<rawCommit, ticket>>
sideVars == <<crudVars, nameVars, parseVars>>

(***************************************************************************)
(* Helpers.                                                                *)
(***************************************************************************)
Range(s) == {s[i] : i \in 1..Len(s)}
Min(a, b) == IF a < b THEN a ELSE b

RowOf(id) == CHOOSE r \in commits : r.id = id

\* prisma.commit.update({ where: { id }, data }) on the status alone
SetStatus(rows, id, st) ==
  {IF r.id = id THEN [r EXCEPT !.summaryStatus = st] ELSE r : r \in rows}

\* prisma.commit.update({ where: { id }, data: { summary, summaryStatus } })
SetSummary(rows, id, text, st) ==
  {IF r.id = id THEN [r EXCEPT !.summary = text, !.summaryStatus = st] ELSE r
     : r \in rows}

(***************************************************************************)
(* Commit store: upsert.                                                   *)
(***************************************************************************)
\* Row ids are opaque; the model derives one from the pair and from how many
\* rows of that pair exist, so that equal stores are equal states.
NewId(rows, repo, sha) ==
  <<repo, sha, Cardinality({r \in rows : r.repositoryId = repo /\ r.sha = sha})>>

Exists(rows, repo, sha) ==
  \E r \in rows : r.repositoryId = repo /\ r.sha = sha

NewRow(rows, repo, sha) ==
  [id |-> NewId(rows, repo, sha), repositoryId |-> repo, sha |-> sha,
   commitDate |-> CommitDate(sha), summary |-> Null, summaryStatus |-> "PENDING"]

\* Mutant: an insert without the existence check.
InsertAlways(rows, repo, sha) == rows \cup {NewRow(rows, repo, sha)}

\* insert only if (repositoryId, sha) is absent

UpsertRows(rows, repo, sha) ==
  IF Exists(rows, repo, sha) THEN rows ELSE rows \cup {NewRow(rows, repo, sha)}

Upsert(repo, sha) ==
  /\ Cardinality(commits) < MaxCommits \/ Exists(commits, repo, sha)
  /\ commits' = UpsertRows(commits, repo, sha)
  /\ lastUpsert' = [repositoryId |-> repo, sha |-> sha,
                    inserted |-> ~Exists(commits, repo, sha)]
  /\ UNCHANGED <<sumVars, drainVars, jobVars, pollVars, expVars, sideVars>>

(***************************************************************************)
(* Text generator: summarizeCommit.                                        *)
(***************************************************************************)
\* What the environment does to one call.
Responses == {"no_api_key", "http_429", "http_resource_exhausted", "http_error",
              "network_error", "ok_text", "ok_empty"}

RateLimitedText == "Rate limited - please retry later"
UnableText == "Unable to generate summary"
NotAvailableText == "AI summary not available"
GeneratedText == "generated summary"

summarizeCommit(r) ==
  CASE r = "no_api_key" -> NotAvailableText
    [] r \in {"http_429", "http_resource_exhausted"} -> RateLimitedText
    [] r = "http_error" -> UnableText
    [] r = "network_error" -> UnableText
    [] r = "ok_empty" -> UnableText
    [] OTHER -> GeneratedText

\* summary.includes('Rate limited')
IncludesRateLimited(text) == text = RateLimitedText

(***************************************************************************)
(* Summarization engine: POST /api/summarize.                              *)
(***************************************************************************)
\* where: { summaryStatus: 'PENDING', repositoryId? }
Selectable(st) == st = "PENDING"

Eligible(rows, sc) ==
  {r \in rows : Selectable(r.summaryStatus)
                /\ (sc = NoRepo \/ r.repositoryId = sc)}

\* Mutant: the batch ordered oldest first.
OldestFirst(d1, d2) == d1 <= d2

\* orderBy: { commitDate: 'desc' }
NewestFirst(d1, d2) == d1 >= d2

\* findMany({ where, take: 10, orderBy: { commitDate: 'desc' } }): every order
\* the store may return; rows of equal date come in any order.
RECURSIVE Orders(_)
Orders(el) ==
  IF el = {} THEN {<<>>}
  ELSE UNION {{<<r.id>> \o s : s \in Orders(el \ {r})} :
                r \in {x \in el : \A y \in el :
                                    NewestFirst(x.commitDate, y.commitDate)}}

Selections(rows, sc) ==
  LET el == Eligible(rows, sc)
      n == Min(BatchSize, Cardinality(el))
  IN {SubSeq(s, 1, n) : s \in Orders(el)}

Cur(c) == batch[c][idx[c]]

\* Mutant: the loop without its break.
NeverBreak(c) == FALSE

\* if (rateLimited) break
BreakOnRateLimit(c) == rateLimited[c]

\* Mutant: a throttled commit written FAILED.
RevertStatusFailed == "FAILED"

\* data: { summaryStatus: 'PENDING' } of the revert
RevertStatus == "PENDING"

\* const commits = await prisma.commit.findMany(...)
\* if (commits.length === 0) return { message, count: 0 }
\* otherwise the request goes on to the loop.
Start(c, sc) ==
  /\ pc[c] = "idle"
  /\ \E s \in Selections(commits, sc) :
       /\ scope' = [scope EXCEPT ![c] = sc]
       /\ batch' = [batch EXCEPT ![c] = s]
       /\ pc' = [pc EXCEPT ![c] = IF Len(s) = 0 THEN "done" ELSE "loop"]
       /\ result' = [result EXCEPT ![c] =
                       IF Len(s) = 0 THEN [kind |-> "empty", count |-> 0]
                       ELSE [kind |-> "none"]]
  /\ UNCHANGED <<storeVars, idx, successCount, failCount, rateLimited, drainVars, jobVars, pollVars, expVars, sideVars>>

\* for (const commit of commits) { if (rateLimited) break;
\*   await prisma.commit.update({ data: { summaryStatus: 'PROCESSING' } })
MarkProcessing(c) ==
  /\ pc[c] = "loop"
  /\ ~BreakOnRateLimit(c)
  /\ idx[c] <= Len(batch[c])
  /\ commits' = SetStatus(commits, Cur(c), "PROCESSING")
  /\ pc' = [pc EXCEPT ![c] = "marked"]
  /\ UNCHANGED <<lastUpsert, scope, batch, idx, successCount, failCount,
                 rateLimited, result, drainVars, jobVars, pollVars, expVars, sideVars>>

\* Mutant: a throttled commit counted as failed.
CountThrottled(n) == n + 1

\* rateLimited = true; continue: neither counter is touched
FailedAfterThrottle(n) == n

\* const summary = await summarizeCommit({...}) answered with a rate-limit text:
\* if (summary.includes('Rate limited')) { update PENDING; rateLimited = true; continue }
RevertPending(c, r) ==
  /\ pc[c] = "marked"
  /\ IncludesRateLimited(summarizeCommit(r))
  /\ commits' = SetStatus(commits, Cur(c), RevertStatus)
  /\ rateLimited' = [rateLimited EXCEPT ![c] = TRUE]
  /\ failCount' = [failCount EXCEPT ![c] = FailedAfterThrottle(@)]
  /\ idx' = [idx EXCEPT ![c] = idx[c] + 1]
  /\ pc' = [pc EXCEPT ![c] = "loop"]
  /\ UNCHANGED <<lastUpsert, scope, batch, successCount, result,
                 drainVars, jobVars, pollVars, expVars, sideVars>>

\* answered with any other text:
\* await prisma.commit.update({ data: { summary, summaryStatus: 'COMPLETED' } });
\* successCount++
StoreSummary(c, r) ==
  /\ pc[c] = "marked"
  /\ ~IncludesRateLimited(summarizeCommit(r))
  /\ commits' = SetSummary(commits, Cur(c), summarizeCommit(r), "COMPLETED")
  /\ successCount' = [successCount EXCEPT ![c] = successCount[c] + 1]
  /\ pc' = [pc EXCEPT ![c] = "delay"]
  /\ UNCHANGED <<lastUpsert, scope, batch, idx, failCount, rateLimited, result,
                 drainVars, jobVars, pollVars, expVars, sideVars>>

\* the same update rejected by the store: control goes to the catch block
StoreThrows(c, r) ==
  /\ pc[c] = "marked"
  /\ ~IncludesRateLimited(summarizeCommit(r))
  /\ pc' = [pc EXCEPT ![c] = "catch"]
  /\ UNCHANGED <<storeVars, scope, batch, idx, successCount, failCount,
                 rateLimited, result, drainVars, jobVars, pollVars, expVars, sideVars>>

\* await new Promise(resolve => setTimeout(resolve, 4500))
Delay(c) ==
  /\ pc[c] = "delay"
  /\ idx' = [idx EXCEPT ![c] = idx[c] + 1]
  /\ pc' = [pc EXCEPT ![c] = "loop"]
  /\ UNCHANGED <<storeVars, scope, batch, successCount, failCount, rateLimited, result, drainVars, jobVars, pollVars, expVars, sideVars>>

\* catch (error) { update FAILED; failCount++ }
CatchFailed(c) ==
  /\ pc[c] = "catch"
  /\ commits' = SetStatus(commits, Cur(c), "FAILED")
  /\ failCount' = [failCount EXCEPT ![c] = failCount[c] + 1]
  /\ idx' = [idx EXCEPT ![c] = idx[c] + 1]
  /\ pc' = [pc EXCEPT ![c] = "loop"]
  /\ UNCHANGED <<lastUpsert, scope, batch, successCount, rateLimited, result, drainVars, jobVars, pollVars, expVars, sideVars>>

\* the update of the catch block is rejected as well: the exception leaves
\* the loop and the outer catch answers 500
CatchThrows(c) ==
  /\ pc[c] = "catch"
  /\ pc' = [pc EXCEPT ![c] = "done"]
  /\ result' = [result EXCEPT ![c] = [kind |-> "error", status |-> 500]]
  /\ UNCHANGED <<storeVars, scope, batch, idx, successCount, failCount,
                 rateLimited, drainVars, jobVars, pollVars, expVars, sideVars>>

\* return { message, success, failed, rateLimited }
ReturnResult(c) ==
  /\ pc[c] = "loop"
  /\ BreakOnRateLimit(c) \/ idx[c] > Len(batch[c])
  /\ pc' = [pc EXCEPT ![c] = "done"]
  /\ result' = [result EXCEPT ![c] =
                  [kind |-> "batch", success |-> successCount[c],
                   failed |-> failCount[c], rateLimited |-> rateLimited[c]]]
  /\ UNCHANGED <<storeVars, scope, batch, idx, successCount, failCount,
                 rateLimited, drainVars, jobVars, pollVars, expVars, sideVars>>

\* The client reads the response (data.success || 0, data.failed || 0); the
\* request is over and its locals are gone. Inside runSummarization the totals
\* and hasMore are updated from it.
ResultSuccess(res) == IF res.kind = "batch" THEN res.success ELSE 0
ResultFailed(res) == IF res.kind = "batch" THEN res.failed ELSE 0
ResultRateLimited(res) == res.kind = "batch" /\ res.rateLimited

\* Mutant: the drain stops on rateLimited alone.
StopsDrainRateOnly(res) == ResultRateLimited(res)

\* if (data.rateLimited || success + failed === 0) hasMore = false
StopsDrain(res) ==
  ResultRateLimited(res) \/ ResultSuccess(res) + ResultFailed(res) = 0

Receive(c) ==
  /\ pc[c] = "done"
  /\ pc' = [pc EXCEPT ![c] = "idle"]
  /\ scope' = [scope EXCEPT ![c] = NoRepo]
  /\ batch' = [batch EXCEPT ![c] = <<>>]
  /\ idx' = [idx EXCEPT ![c] = 1]
  /\ successCount' = [successCount EXCEPT ![c] = 0]
  /\ failCount' = [failCount EXCEPT ![c] = 0]
  /\ rateLimited' = [rateLimited EXCEPT ![c] = FALSE]
  /\ IF drain[c] = "processing"
     THEN /\ totalSuccess' = [totalSuccess EXCEPT ![c] = @ + ResultSuccess(result[c])]
          /\ totalFailed' = [totalFailed EXCEPT ![c] = @ + ResultFailed(result[c])]
          /\ hasMore' = [hasMore EXCEPT ![c] = ~StopsDrain(result[c])]
          /\ result' = [result EXCEPT ![c] = [kind |-> "none"]]
          /\ lastResult' = [lastResult EXCEPT ![c] = result[c]]
     ELSE /\ result' = [result EXCEPT ![c] = [kind |-> "none"]]
          /\ UNCHANGED <<totalSuccess, totalFailed, hasMore, lastResult>>
  /\ UNCHANGED <<storeVars, drain, selectedRepo, jobVars, pollVars, expVars, sideVars>>

\* The steps of a request after its findMany.
Step(c) ==
  \/ MarkProcessing(c)
  \/ \E r \in Responses : RevertPending(c, r)
  \/ \E r \in Responses : StoreSummary(c, r)
  \/ \E r \in Responses : StoreThrows(c, r)
  \/ Delay(c)
  \/ CatchFailed(c)
  \/ CatchThrows(c)
  \/ ReturnResult(c)
  \/ Receive(c)

(***************************************************************************)
(* The client drain loop: runSummarization.                                *)
(***************************************************************************)
\* setSummarize({ status: 'processing', ... }); totals = 0; hasMore = true
DrainBegin(c, sc) ==
  /\ drain[c] \in {"idle", "completed"}
  /\ pc[c] = "idle"
  /\ drain' = [drain EXCEPT ![c] = "processing"]
  /\ selectedRepo' = [selectedRepo EXCEPT ![c] = sc]
  /\ totalSuccess' = [totalSuccess EXCEPT ![c] = 0]
  /\ totalFailed' = [totalFailed EXCEPT ![c] = 0]
  /\ hasMore' = [hasMore EXCEPT ![c] = TRUE]
  /\ lastResult' = [lastResult EXCEPT ![c] = [kind |-> "none"]]
  /\ UNCHANGED <<storeVars, sumVars, jobVars, pollVars, expVars, sideVars>>

\* while (hasMore) { const res = await fetch('/api/summarize', ...)
DrainFetch(c) ==
  /\ drain[c] = "processing"
  /\ hasMore[c]
  /\ Start(c, selectedRepo[c])

\* the loop left: setSummarize({ status: 'completed', ... })
DrainEnd(c) ==
  /\ drain[c] = "processing"
  /\ ~hasMore[c]
  /\ pc[c] = "idle"
  /\ drain' = [drain EXCEPT ![c] = "completed"]
  /\ UNCHANGED <<storeVars, sumVars, selectedRepo, totalSuccess, totalFailed,
                 hasMore, lastResult, jobVars, pollVars, expVars, sideVars>>

(***************************************************************************)
(* Job coordinator: POST /api/analyze.                                     *)
(***************************************************************************)
JobOf(id) == CHOOSE j \in jobs : j.id = id
JobIds == {j.id : j \in jobs}

SetJob(rows, id, job) == {IF j.id = id THEN job ELSE j : j \in rows}

\* Mutant: a job created in another status.
NewJobStatusCloning == "CLONING"

\* prisma.analysisJob.create({ data: { repositoryId, ..., status: 'PENDING' } })
NewJobStatus == "PENDING"

NewJob(id, repo) ==
  [id |-> id, repositoryId |-> repo, status |-> NewJobStatus, totalCommits |-> 0,
   processedCommits |-> 0, error |-> Null, completed |-> FALSE]

\* Mutant: no existence check.
RepositoryAlwaysFound(repo) == TRUE

\* if (!repository) return 404
RepositoryFound(repo) == repo \in Repositories

\* The whole handler: look the repository up, create the job, fire the fetch
\* without awaiting it, answer with the job id and status.
Submit(repo) ==
  IF ~RepositoryFound(repo)
  THEN /\ lastSubmit' = [repositoryId |-> repo, code |-> 404, id |-> 0,
                         status |-> Null]
       /\ UNCHANGED <<jobs, dispatch, counted, storeVars, sumVars, drainVars, pollVars, expVars, sideVars>>
  ELSE /\ Cardinality(jobs) < MaxJobs
       /\ LET id == Cardinality(jobs) + 1
              job == NewJob(id, repo)
          IN /\ jobs' = jobs \cup {job}
             /\ dispatch' = [i \in JobIds \cup {id} |->
                               IF i = id THEN "inflight" ELSE dispatch[i]]
             /\ lastSubmit' = [repositoryId |-> repo, code |-> 200, id |-> id,
                               status |-> job.status]
       /\ UNCHANGED <<counted, storeVars, sumVars, drainVars, pollVars, expVars, sideVars>>

\* .then(res => res.text()).then(text => console.log(...))
DispatchDelivered(id) ==
  /\ id \in JobIds
  /\ dispatch[id] = "inflight"
  /\ dispatch' = [dispatch EXCEPT ![id] = "delivered"]
  /\ UNCHANGED <<jobs, counted, lastSubmit, storeVars, sumVars, drainVars, pollVars, expVars, sideVars>>

\* Mutant: a failed dispatch marks the job FAILED.
FailedDispatchMarksFailed(st) == "FAILED"

\* .catch(err => console.error('Failed to trigger Rust service:', err))
FailedDispatchStatus(st) == st

DispatchFailed(id) ==
  /\ id \in JobIds
  /\ dispatch[id] = "inflight"
  /\ dispatch' = [dispatch EXCEPT ![id] = "failed"]
  /\ jobs' = SetJob(jobs, id,
                    [JobOf(id) EXCEPT !.status = FailedDispatchStatus(JobOf(id).status)])
  /\ UNCHANGED <<counted, lastSubmit, storeVars, sumVars, drainVars, pollVars, expVars, sideVars>>

(***************************************************************************)
(* The extraction service's updates of the job it was handed.              *)
(***************************************************************************)
\* extraction begins
BeginCloning(id) ==
  /\ id \in JobIds
  /\ dispatch[id] = "delivered"
  /\ JobOf(id).status = "PENDING"
  /\ jobs' = SetJob(jobs, id, [JobOf(id) EXCEPT !.status = "CLONING"])
  /\ UNCHANGED <<dispatch, counted, lastSubmit, storeVars, sumVars, drainVars, pollVars, expVars, sideVars>>

\* clone/fetch resolved
CloneResolved(id) ==
  /\ id \in JobIds
  /\ JobOf(id).status = "CLONING"
  /\ jobs' = SetJob(jobs, id, [JobOf(id) EXCEPT !.status = "PARSING"])
  /\ UNCHANGED <<dispatch, counted, lastSubmit, storeVars, sumVars, drainVars, pollVars, expVars, sideVars>>

\* the history walk reports how many commits this run found
ReportTotal(id, n) ==
  /\ id \in JobIds
  /\ JobOf(id).status = "PARSING"
  /\ id \notin counted
  /\ counted' = counted \cup {id}
  /\ jobs' = SetJob(jobs, id, [JobOf(id) EXCEPT !.totalCommits = n])
  /\ UNCHANGED <<dispatch, lastSubmit, storeVars, sumVars, drainVars, pollVars, expVars, sideVars>>

\* Mutant: the counter restarts below where it was.
ProcessedCountsDown(n) == n - 1

\* Update processedCommits count
NextProcessed(n) == n + 1

\* one more commit of this run stored
ReportProgress(id) ==
  /\ id \in JobIds
  /\ JobOf(id).status = "PARSING"
  /\ id \in counted
  /\ JobOf(id).processedCommits < JobOf(id).totalCommits
  /\ jobs' = SetJob(jobs, id,
                    [JobOf(id) EXCEPT !.processedCommits = NextProcessed(@)])
  /\ UNCHANGED <<dispatch, counted, lastSubmit, storeVars, sumVars, drainVars, pollVars, expVars, sideVars>>

\* all commits from this run processed
CompleteJob(id) ==
  /\ id \in JobIds
  /\ JobOf(id).status = "PARSING"
  /\ id \in counted
  /\ JobOf(id).processedCommits = JobOf(id).totalCommits
  /\ jobs' = SetJob(jobs, id,
                    [JobOf(id) EXCEPT !.status = "COMPLETED", !.completed = TRUE])
  /\ UNCHANGED <<dispatch, counted, lastSubmit, storeVars, sumVars, drainVars, pollVars, expVars, sideVars>>

\* CLONING or PARSING may go to FAILED, carrying an error string
FailJob(id) ==
  /\ id \in JobIds
  /\ JobOf(id).status \in {"CLONING", "PARSING"}
  /\ jobs' = SetJob(jobs, id,
                    [JobOf(id) EXCEPT !.status = "FAILED", !.error = "error",
                                         !.completed = TRUE])
  /\ UNCHANGED <<dispatch, counted, lastSubmit, storeVars, sumVars, drainVars, pollVars, expVars, sideVars>>

(***************************************************************************)
(* Analyze page: handleAnalyze and the status polling effect, and          *)
(* GET /api/analyze?jobId.                                                 *)
(***************************************************************************)
PollSlots == 1..MaxInFlight
NoJob == [id |-> 0, status |-> Null, totalCommits |-> 0, processedCommits |-> 0,
          error |-> Null]
NoPoll == [phase |-> "free", job |-> 0, body |-> NoJob]

\* job.status === 'COMPLETED' || job.status === 'FAILED'
StopsPolling(st) == st \in {"COMPLETED", "FAILED"}

\* The effect keeps an interval exactly while the job it holds is not
\* terminal: every setJob re-runs it, its cleanup clears the old interval.
Polling == clientJob.id # 0 /\ ~StopsPolling(clientJob.status)

\* The response of the POST has not been read yet (loading is true).
Loading == lastSubmit.code = 200 /\ lastSubmit.id \notin started

\* disabled={loading || !selectedRepo || Boolean(job && !terminal)}
ButtonEnabled == ~Loading /\ ~Polling

\* handleAnalyze up to its await: the POST is served.
HandleAnalyze(repo) ==
  /\ ButtonEnabled
  /\ repo \in Repositories
  /\ Cardinality(jobs) < MaxAnalyses
  /\ Submit(repo)

\* setJob({ ...data, totalCommits: 0, processedCommits: 0, error: null })
ReadSubmit ==
  /\ Loading
  /\ clientJob' = [id |-> lastSubmit.id, status |-> lastSubmit.status,
                   totalCommits |-> 0, processedCommits |-> 0, error |-> Null]
  /\ started' = started \cup {lastSubmit.id}
  /\ UNCHANGED <<polls, lastRead, seenTerminal, storeVars, sumVars, drainVars,
                 jobVars, expVars, sideVars>>

\* The interval fires: fetch(`/api/analyze?jobId=${job.id}`)
Tick ==
  /\ Polling
  /\ \E x \in PollSlots : polls[x].phase = "free"
  /\ LET FreeSlots == {x \in PollSlots : polls[x].phase = "free"}
         s == CHOOSE x \in FreeSlots : \A y \in FreeSlots : x <= y
     IN polls' = [polls EXCEPT ![s] = [phase |-> "sent", job |-> clientJob.id,
                                       body |-> NoJob]]
  /\ UNCHANGED <<clientJob, started, lastRead, seenTerminal, storeVars, sumVars,
                 drainVars, jobVars, expVars, sideVars>>

\* GET: prisma.analysisJob.findUnique, return NextResponse.json(job)
GetStatus(s) ==
  /\ polls[s].phase = "sent"
  /\ polls[s].job \in JobIds
  /\ LET job == JobOf(polls[s].job)
     IN /\ polls' = [polls EXCEPT ![s] = [phase |-> "answered", job |-> job.id,
                                          body |-> job]]
        /\ lastRead' = [lastRead EXCEPT ![job.id] =
                          [prev |-> lastRead[job.id].cur, cur |-> job]]
  /\ UNCHANGED <<clientJob, started, seenTerminal, storeVars, sumVars, drainVars,
                 jobVars, expVars, sideVars>>

\* const updated = await res.json(); setJob(updated); the callbacks of
\* overlapping ticks resume in the order their responses arrive.
ReadStatus(s) ==
  /\ polls[s].phase = "answered"
  /\ clientJob' = polls[s].body
  /\ seenTerminal' = IF StopsPolling(polls[s].body.status)
                     THEN seenTerminal \cup {polls[s].job}
                     ELSE seenTerminal
  /\ polls' = [polls EXCEPT ![s] = NoPoll]
  /\ UNCHANGED <<started, lastRead, storeVars, sumVars, drainVars, jobVars,
                 expVars, sideVars>>

(***************************************************************************)
(* Report compiler: POST /api/export. Texts are sequences of tokens, names *)
(* are sequences of characters, a commit date is a count of half days.     *)
(***************************************************************************)
\* message.toLowerCase(), token by token
LowerToken(tok) ==
  CASE tok = "Merge" -> "merge"
    [] tok = "MERGE" -> "merge"
    [] tok = "PULL" -> "pull"
    [] tok = "REQUEST" -> "request"
    [] tok = "Ayay sir" -> "ayay sir"
    [] tok = "AYAY SIR" -> "ayay sir"
    [] OTHER -> tok

toLowerCase(m) == [i \in 1..Len(m) |-> LowerToken(m[i])]

startsWith(m, prefix) ==
  /\ Len(m) >= Len(prefix)
  /\ \A i \in 1..Len(prefix) : m[i] = prefix[i]

\* Mutant: only the spelling "Merge branch" counts as a merge.
isMergeBranchExact(message) == startsWith(message, <<"Merge", " ", "branch">>)

isMergeCommit(message) ==
  LET lowerMsg == toLowerCase(message)
  IN \/ startsWith(lowerMsg, <<"merge", " ", "commit">>)
     \/ startsWith(lowerMsg, <<"merge", " ", "pull", " ", "request">>)
     \/ startsWith(lowerMsg, <<"merge", " ", "branch">>)
     \/ startsWith(lowerMsg, <<"merge", " ", "remote-tracking">>)

IsSpace(tok) == tok \in {" ", "\n"}

\* .replace(/Ayay sir/gi, '')
RECURSIVE StripNoise(_)
StripNoise(m) ==
  IF m = <<>> THEN <<>>
  ELSE IF LowerToken(Head(m)) = "ayay sir"
       THEN StripNoise(Tail(m))
       ELSE <<Head(m)>> \o StripNoise(Tail(m))

\* .replace(/\n+/g, ' ').replace(/\s+/g, ' ')
RECURSIVE CollapseSpace(_)
CollapseSpace(m) ==
  IF m = <<>> THEN <<>>
  ELSE IF IsSpace(Head(m))
       THEN IF Len(m) > 1 /\ IsSpace(m[2])
            THEN CollapseSpace(Tail(m))
            ELSE <<" ">> \o CollapseSpace(Tail(m))
       ELSE <<Head(m)>> \o CollapseSpace(Tail(m))

\* .trim()
Trim(m) ==
  LET a == IF m # <<>> /\ IsSpace(Head(m)) THEN Tail(m) ELSE m
  IN IF a # <<>> /\ IsSpace(a[Len(a)]) THEN SubSeq(a, 1, Len(a) - 1) ELSE a

cleanMessage(message) == Trim(CollapseSpace(StripNoise(message)))

\* format(commit.commitDate, 'dd/MM/yyyy'): <<dd, MM, yyyy>>
Calendar == <<<<31, 1, 2024>>, <<1, 2, 2024>>, <<2, 2, 2024>>, <<3, 2, 2024>>>>
FormatDate(ts) == Calendar[(ts \div 2) + 1]

\* new Date(year, month - 1, day).getTime(), in days
DateTime(date) == date[3] * 372 + date[2] * 31 + date[1]

\* a.localeCompare(b) of the paths and names in use: their collation order
Collation == <<"api", "docs/a.md", "infra/ops", "platform-billing-gateway-api",
               "platform-billing-gateway-ui", "README.md", "src/x.ts", "Web App",
               "web-app">>
localeCompare(a, b) ==
  LET Rank(s) == CHOOSE i \in 1..Len(Collation) : Collation[i] = s
  IN Rank(a) - Rank(b)

\* repository.name
RepoName(repo) == IF repo = "r1" THEN "Web App" ELSE "api"

\* The characters of a repository name.
NameChars(name) ==
  CASE name = "Web App" ->
         <<"W", "e", "b", " ", "A", "p", "p">>
    [] name = "web-app" ->
         <<"w", "e", "b", "-", "a", "p", "p">>
    [] name = "infra/ops" ->
         <<"i", "n", "f", "r", "a", "/", "o", "p", "s">>
    [] name = "platform-billing-gateway-ui" ->
         <<"p", "l", "a", "t", "f", "o", "r", "m", "-", "b", "i", "l", "l", "i", "n", "g", "-", "g", "a", "t", "e", "w", "a", "y", "-", "u", "i">>
    [] name = "platform-billing-gateway-api" ->
         <<"p", "l", "a", "t", "f", "o", "r", "m", "-", "b", "i", "l", "l", "i", "n", "g", "-", "g", "a", "t", "e", "w", "a", "y", "-", "a", "p", "i">>
    [] OTHER -> <<"a", "p", "i">>

LowerChar(ch) ==
  CASE ch = "W" -> "w"
    [] ch = "A" -> "a"
    [] OTHER -> ch

IsAlnum(ch) ==
  ch \in {"a", "b", "c", "d", "e", "f", "g", "h", "i", "j", "k", "l", "m", "n",
          "o", "p", "q", "r", "s", "t", "u", "v", "w", "x", "y", "z", "0", "1",
          "2", "3", "4", "5", "6", "7", "8", "9"}

\* .replace(/[^a-z0-9]+/g, '-')
RECURSIVE DashRuns(_)
DashRuns(s) ==
  IF s = <<>> THEN <<>>
  ELSE IF ~IsAlnum(Head(s))
       THEN IF Len(s) > 1 /\ ~IsAlnum(s[2])
            THEN DashRuns(Tail(s))
            ELSE <<"-">> \o DashRuns(Tail(s))
       ELSE <<Head(s)>> \o DashRuns(Tail(s))

\* .replace(/^-+|-+$/g, '')
TrimDash(s) ==
  LET a == IF s # <<>> /\ Head(s) = "-" THEN Tail(s) ELSE s
  IN IF a # <<>> /\ a[Len(a)] = "-" THEN SubSeq(a, 1, Len(a) - 1) ELSE a

slugify(name) ==
  LET lower == [i \in 1..Len(NameChars(name)) |-> LowerChar(NameChars(name)[i])]
      slug == TrimDash(DashRuns(lower))
  IN IF slug = <<>> THEN <<"r", "e", "p", "o">> ELSE slug

\* `${slugify(repoData.repoName)}-git-summary-${timestamp}.xlsx`; one call
\* has one timestamp.
FileName(name) == slugify(name) \o <<"-git-summary-", "timestamp", ".xlsx">>

(***************************************************************************)
(* The commits an export may find in the store.                            *)
(***************************************************************************)
ExportRow(sha, repo, ts, author, message, title, paths) ==
  [id |-> <<repo, sha, 0>>, repositoryId |-> repo, sha |-> sha, commitDate |-> ts,
   authorName |-> author.name, authorEmail |-> author.email,
   message |-> message, messageTitle |-> title, changedPaths |-> paths,
   filesChanged |-> Len(paths), summary |-> Null, summaryStatus |-> "PENDING"]

ExportSamples ==
  LET Ann == [name |-> "Ann", email |-> "a@x.com"]
      Bob == [name |-> "Bob", email |-> "b@y.com"]
      Ana == [name |-> "Ana", email |-> "ana@x.com"]
      FixBug == <<"fix", " ", "x", " ", "bug">>
      FeatY == <<"feat", " ", "y">>
  IN
  { ExportRow("aaa1111", "r1", 0, Ann, FixBug, FixBug, <<"src/x.ts", "README.md">>),
    ExportRow("bbb2222", "r1", 1, Bob, FeatY, FeatY, <<"README.md", "src/x.ts">>),
    ExportRow("ccc3333", "r1", 0, Bob, FeatY, FeatY, <<"README.md">>),
    ExportRow("ddd4444", "r1", 2, Ann, <<"Merge", " ", "branch", " ", "dev">>,
              <<"Merge", " ", "branch", " ", "dev">>, <<"src/x.ts">>),
    ExportRow("eee5555", "r1", 4, Ana,
              <<"Ayay sir", "\n", "\n", " ", "tidy", " ", " ", "docs", "\n">>,
              <<"Ayay sir">>, <<"docs/a.md", "README.md">>),
    ExportRow("fff6666", "r1", 5, Bob, <<"AYAY SIR", " ">>, <<"AYAY SIR">>,
              <<"src/x.ts">>),
    ExportRow("ggg7777", "r2", 3, Bob, FixBug, FixBug, <<"README.md">>),
    ExportRow("hhh8888", "r2", 6, Ann, <<>>, <<"MERGE", " ", "PULL", " ", "REQUEST">>,
              <<"README.md">>),
    ExportRow("iii9999", "r2", 1, Ann, <<>>, FeatY, <<>>) }

ExportStores(n) == {S \in SUBSET ExportSamples : Cardinality(S) <= n}

(***************************************************************************)
(* The query of an export.                                                 *)
(***************************************************************************)
NoDate == 0 - 1

\* { contains: data.authorEmail }: the substrings of the e-mails in use
Fragments(email) ==
  CASE email = "a@x.com" -> {"a@x.com", "x.com"}
    [] email = "ana@x.com" -> {"ana@x.com", "a@x.com", "x.com"}
    [] OTHER -> {email, "y.com"}

\* new Date('yyyy-MM-dd'): the first instant of the day
DayStart(day) == 2 * day

\* Mutant: the author filter is not applied.
AuthorAny(c, f) == TRUE

AuthorMatches(c, f) ==
  IF Len(f.authorEmails) > 0
  THEN c.authorEmail \in Range(f.authorEmails)
  ELSE IF f.authorEmail # Null
       THEN f.authorEmail \in Fragments(c.authorEmail)
       ELSE TRUE

DateMatches(c, f) ==
  /\ f.startDate # NoDate => c.commitDate >= DayStart(f.startDate)
  /\ f.endDate # NoDate => c.commitDate <= DayStart(f.endDate)

RepoMatches(c, f) ==
  Len(f.repoIds) > 0 => c.repositoryId \in Range(f.repoIds)

Where(c, f) == AuthorMatches(c, f) /\ DateMatches(c, f) /\ RepoMatches(c, f)

\* The bodies a request may carry.
ExportFilters ==
  {f \in [authorEmails : {<<>>, <<"a@x.com">>, <<"a@x.com", "b@y.com">>},
          authorEmail : {Null, "a@x.com"},
          startDate : {NoDate, 0},
          endDate : {NoDate, 2},
          repoIds : {<<>>, <<"r1">>, <<"r2", "r1">>}] :
     (f.startDate = NoDate) = (f.endDate = NoDate)}

\* findMany({ where, orderBy: { commitDate: 'asc' } }): rows of equal date in
\* any order
FindManyAsc(rows, f) ==
  LET S == {c \in rows : Where(c, f)}
  IN {s \in [1..Cardinality(S) -> S] :
        /\ Range(s) = S
        /\ \A i, j \in 1..Cardinality(S) :
             i < j => s[i].commitDate <= s[j].commitDate}

\* commitsByRepo.get(repositoryId).commits
RECURSIVE CommitsOfRepo(_, _)
CommitsOfRepo(cs, repo) ==
  IF cs = <<>> THEN <<>>
  ELSE IF Head(cs).repositoryId = repo
       THEN <<Head(cs)>> \o CommitsOfRepo(Tail(cs), repo)
       ELSE CommitsOfRepo(Tail(cs), repo)

\* The keys of commitsByRepo, in insertion order.
RECURSIVE ReposOf(_)
ReposOf(cs) ==
  IF cs = <<>> THEN <<>>
  ELSE LET rest == ReposOf(SubSeq(cs, 1, Len(cs) - 1))
           repo == cs[Len(cs)].repositoryId
       IN IF repo \in Range(rest) THEN rest ELSE Append(rest, repo)

\* Array.prototype.sort is stable: an element goes after every element that
\* does not compare greater.
RECURSIVE InsertRepo(_, _)
InsertRepo(sorted, repo) ==
  IF sorted = <<>> THEN <<repo>>
  ELSE IF localeCompare(RepoName(Head(sorted)), RepoName(repo)) <= 0
       THEN <<Head(sorted)>> \o InsertRepo(Tail(sorted), repo)
       ELSE <<repo>> \o sorted

RECURSIVE SortRepos(_)
SortRepos(repos) ==
  IF repos = <<>> THEN <<>>
  ELSE InsertRepo(SortRepos(SubSeq(repos, 1, Len(repos) - 1)), repos[Len(repos)])

\* Array.from(commitsByRepo.entries()).sort(by repoName)
RepoEntries(cs) == SortRepos(ReposOf(cs))

\* repoCommits.sort((a, b) => a.commitDate - b.commitDate)
RECURSIVE InsertCommit(_, _)
InsertCommit(sorted, c) ==
  IF sorted = <<>> THEN <<c>>
  ELSE IF Head(sorted).commitDate - c.commitDate <= 0
       THEN <<Head(sorted)>> \o InsertCommit(Tail(sorted), c)
       ELSE <<c>> \o sorted

RECURSIVE SortCommits(_)
SortCommits(cs) ==
  IF cs = <<>> THEN <<>>
  ELSE InsertCommit(SortCommits(SubSeq(cs, 1, Len(cs) - 1)), cs[Len(cs)])

RepoCommits(cs, repo) == SortCommits(CommitsOfRepo(cs, repo))

(***************************************************************************)
(* The sheets of one repository's workbook.                                *)
(***************************************************************************)
\* commit.message || commit.messageTitle || ''
RawMessage(c) == IF c.message # <<>> THEN c.message ELSE c.messageTitle

\* `- ${changeDesc}`
ChangeLine(c) == <<"- ">> \o cleanMessage(RawMessage(c))

\* The three `continue`s of the file-history loop.
SkippedInHistory(c) ==
  \/ c.changedPaths = <<>>
  \/ isMergeCommit(RawMessage(c))
  \/ cleanMessage(RawMessage(c)) = <<>>

\* Mutant: one date entry per commit.
AddDateEntryAlways(history, date, line) ==
  Append(history, [date |-> date, changes |-> <<line>>])

\* history.find(h => h.date === commitDate), push, dateEntry.changes.push
AddDateEntry(history, date, line) ==
  IF \E i \in 1..Len(history) : history[i].date = date
  THEN [i \in 1..Len(history) |->
          IF history[i].date = date
          THEN [history[i] EXCEPT !.changes = Append(@, line)]
          ELSE history[i]]
  ELSE Append(history, [date |-> date, changes |-> <<line>>])

\* fileHistory.has / set / get for one path of one commit
AddFileChange(fileHistory, filePath, date, line) ==
  IF \E i \in 1..Len(fileHistory) : fileHistory[i].file = filePath
  THEN [i \in 1..Len(fileHistory) |->
          IF fileHistory[i].file = filePath
          THEN [fileHistory[i] EXCEPT !.history = AddDateEntry(@, date, line)]
          ELSE fileHistory[i]]
  ELSE Append(fileHistory,
              [file |-> filePath, history |-> AddDateEntry(<<>>, date, line)])

\* for (const filePath of files)
RECURSIVE AddFiles(_, _, _, _)
AddFiles(fileHistory, files, date, line) ==
  IF files = <<>> THEN fileHistory
  ELSE AddFiles(AddFileChange(fileHistory, Head(files), date, line),
                Tail(files), date, line)

\* for (const commit of repoCommits)
RECURSIVE BuildFileHistory(_)
BuildFileHistory(cs) ==
  IF cs = <<>> THEN <<>>
  ELSE LET before == BuildFileHistory(SubSeq(cs, 1, Len(cs) - 1))
           c == cs[Len(cs)]
       IN IF SkippedInHistory(c) THEN before
          ELSE AddFiles(before, c.changedPaths, FormatDate(c.commitDate),
                        ChangeLine(c))

\* Mutant: the date entries oldest first.
CompareDatesAsc(a, b) == DateTime(a.date) - DateTime(b.date)

\* (a, b) => dateB.getTime() - dateA.getTime()
CompareDates(a, b) == DateTime(b.date) - DateTime(a.date)

RECURSIVE InsertDateEntry(_, _)
InsertDateEntry(sorted, h) ==
  IF sorted = <<>> THEN <<h>>
  ELSE IF CompareDates(Head(sorted), h) <= 0
       THEN <<Head(sorted)>> \o InsertDateEntry(Tail(sorted), h)
       ELSE <<h>> \o sorted

RECURSIVE SortHistory(_)
SortHistory(history) ==
  IF history = <<>> THEN <<>>
  ELSE InsertDateEntry(SortHistory(SubSeq(history, 1, Len(history) - 1)),
                       history[Len(history)])

RECURSIVE InsertFile(_, _)
InsertFile(sorted, e) ==
  IF sorted = <<>> THEN <<e>>
  ELSE IF localeCompare(Head(sorted).file, e.file) <= 0
       THEN <<Head(sorted)>> \o InsertFile(Tail(sorted), e)
       ELSE <<e>> \o sorted

\* Array.from(fileHistory.entries()).sort((a, b) => a[0].localeCompare(b[0]))
RECURSIVE SortFiles(_)
SortFiles(fileHistory) ==
  IF fileHistory = <<>> THEN <<>>
  ELSE InsertFile(SortFiles(SubSeq(fileHistory, 1, Len(fileHistory) - 1)),
                  fileHistory[Len(fileHistory)])

\* The rows of the File Summary sheet: one per file, its date entries sorted.
FileSummarySheet(cs) ==
  LET sortedFiles == SortFiles(BuildFileHistory(cs))
  IN [i \in 1..Len(sortedFiles) |->
        [file |-> sortedFiles[i].file,
         changes |-> SortHistory(sortedFiles[i].history)]]

\* The rows of the Git Commits sheet: [...repoCommits].reverse()
CommitsSheet(cs, repo) ==
  [i \in 1..Len(cs) |->
     LET c == cs[Len(cs) + 1 - i]
     IN [dateTime |-> c.commitDate, repository |-> RepoName(repo),
         commitName |-> c.messageTitle, commitDesc |-> c.message,
         commitCode |-> c.sha, changedFiles |-> c.changedPaths,
         filesCount |-> c.filesChanged,
         author |-> <<c.authorName, c.authorEmail>>]]

(***************************************************************************)
(* The narrative summary: generateProgressReport and its local fallback.   *)
(* A text is a sequence of lines, a line a sequence of its parts.          *)
(***************************************************************************)
\* format(date, 'MMMM d, yyyy')
FormatLong(ts) ==
  LET date == FormatDate(ts)
      MonthName == IF date[2] = 1 THEN "January" ELSE "February"
  IN <<MonthName, date[1], date[3]>>

\* [...new Set(xs)]: the first occurrence of each element, in order
RECURSIVE Distinct(_)
Distinct(xs) ==
  IF xs = <<>> THEN <<>>
  ELSE LET rest == Distinct(SubSeq(xs, 1, Len(xs) - 1))
       IN IF xs[Len(xs)] \in Range(rest) THEN rest ELSE Append(rest, xs[Len(xs)])

\* repoCommits.map(c => c.message || c.messageTitle || '').filter(Boolean)
RECURSIVE CommitMessages(_)
CommitMessages(cs) ==
  IF cs = <<>> THEN <<>>
  ELSE IF RawMessage(Head(cs)) = <<>>
       THEN CommitMessages(Tail(cs))
       ELSE <<RawMessage(Head(cs))>> \o CommitMessages(Tail(cs))

\* repoCommits.reduce((sum, c) => sum + (c.filesChanged || 0), 0)
RECURSIVE TotalFilesChanged(_)
TotalFilesChanged(cs) ==
  IF cs = <<>> THEN 0 ELSE Head(cs).filesChanged + TotalFilesChanged(Tail(cs))

DateRange(cs, f) ==
  [start |-> IF f.startDate # NoDate THEN FormatLong(DayStart(f.startDate))
             ELSE FormatLong(cs[1].commitDate),
   end |-> IF f.endDate # NoDate THEN FormatLong(DayStart(f.endDate))
           ELSE FormatLong(cs[Len(cs)].commitDate)]

\* The argument the export hands to generateProgressReport.
ProgressReportInput(cs, repo, f) ==
  [authorNames |-> Distinct([i \in 1..Len(cs) |-> cs[i].authorName]),
   dateRange |-> DateRange(cs, f),
   repositories |-> <<RepoName(repo)>>,
   commitMessages |-> CommitMessages(cs),
   totalCommits |-> Len(cs),
   totalFilesChanged |-> TotalFilesChanged(cs)]

\* .filter(msg => !msg.toLowerCase().startsWith('merge ')).slice(0, 8)
RECURSIVE NotMerge(_)
NotMerge(ms) ==
  IF ms = <<>> THEN <<>>
  ELSE IF startsWith(toLowerCase(Head(ms)), <<"merge", " ">>)
       THEN NotMerge(Tail(ms))
       ELSE <<Head(ms)>> \o NotMerge(Tail(ms))

SampleSize == 8

SampleMessages(input) ==
  LET ms == NotMerge(Distinct(input.commitMessages))
      kept == SubSeq(ms, 1, Min(SampleSize, Len(ms)))
  IN IF kept = <<>> THEN <<<<"- No commit samples available">>>>
     ELSE [i \in 1..Len(kept) |-> <<"- ">> \o kept[i]]

buildLocalSummary(input, reason) ==
  << <<"Development Progress Report">>,
     <<input.dateRange.start, " - ", input.dateRange.end>>,
     <<"Overview:">>,
     <<"- Authors: ", IF input.authorNames # <<>> THEN input.authorNames
                      ELSE <<"Unknown">> >>,
     <<"- Repositories: ", input.repositories>>,
     <<"- Total commits: ", input.totalCommits>>,
     <<"- Files changed: ", input.totalFilesChanged>>,
     <<"Highlights (sample commits):">> >>
  \o SampleMessages(input)
  \o << <<"Notes:">>,
        <<"- AI summary unavailable (", reason,
          "). This is a local fallback summary.">> >>

\* What the narrative generator may answer.
GeneratorAnswers ==
  {"no_api_key", "http_429", "http_resource_exhausted", "http_error",
   "network_error", "ok_text", "ok_empty"}

GeneratedReport == << <<"generated text">> >>

\* Mutant: fixed texts in place of the local summary.
generateProgressReportFixed(input, answer) ==
  CASE answer = "no_api_key" ->
         << <<"AI summary not available - GEMINI_API_KEY not configured">> >>
    [] answer \in {"http_429", "http_resource_exhausted"} ->
         << <<"AI summary temporarily unavailable - rate limited.">> >>
    [] answer = "ok_text" -> GeneratedReport
    [] OTHER -> << <<"Unable to generate progress report summary">> >>

generateProgressReport(input, answer) ==
  CASE answer = "no_api_key" ->
         buildLocalSummary(input, "GEMINI_API_KEY not configured")
    [] answer \in {"http_429", "http_resource_exhausted"} ->
         buildLocalSummary(input, "Gemini API rate limited")
    [] answer = "http_error" -> buildLocalSummary(input, "Gemini API error")
    [] answer = "ok_empty" -> buildLocalSummary(input, "Empty AI response")
    [] answer = "network_error" -> buildLocalSummary(input, "Request failed")
    [] OTHER -> GeneratedReport

\* The Summary sheet: title, period, statistics, the report's paragraphs.
SummarySheet(cs, repo, f, answer) ==
  LET input == ProgressReportInput(cs, repo, f)
  IN [title |-> <<RepoName(repo), " - Development Progress Report">>,
      period |-> <<input.dateRange.start, " - ", input.dateRange.end>>,
      stats |-> <<"Authors: ", input.authorNames, "  |  Commits: ", Len(cs),
                  "  |  Files Changed: ", input.totalFilesChanged>>,
      report |-> generateProgressReport(input, answer)]

Workbook(cs, repo, f, answer) ==
  [summary |-> SummarySheet(cs, repo, f, answer),
   fileSummary |-> FileSummarySheet(cs),
   gitCommits |-> CommitsSheet(cs, repo)]

(***************************************************************************)
(* POST /api/export, one action per await that can fail.                   *)
(***************************************************************************)
ExportError(code) == [kind |-> "error", status |-> code]

\* request.json(), exportSchema.parse, the where clause, findMany, the
\* grouping by repository, mkdir
ExportLoad(f) ==
  /\ expPc = "idle"
  /\ \E cs \in FindManyAsc(commits, f) :
       /\ expCommits' = cs
       /\ expRepos' = RepoEntries(cs)
  /\ expFilter' = f
  /\ expPc' = "repos"
  /\ UNCHANGED <<generatedFiles, generatorAnswers, exportsDir, exportJobs,
                 expResponse, storeVars, sumVars, drainVars, jobVars, pollVars, sideVars>>

\* findMany or mkdir throws: the outer catch answers 500
ExportLoadFails(f) ==
  /\ expPc = "idle"
  /\ expFilter' = f
  /\ expPc' = "done"
  /\ expResponse' = ExportError(500)
  /\ UNCHANGED <<expCommits, expRepos, generatedFiles, generatorAnswers,
                 exportsDir, exportJobs, storeVars, sumVars, drainVars, jobVars,
                 pollVars, sideVars>>

\* One turn of the loop over repoEntries: the workbook is built (the
\* narrative generator answers), serialized and written to the exports
\* directory.
ExportWriteRepo(answer) ==
  /\ expPc = "repos"
  /\ expRepos # <<>>
  /\ LET repo == Head(expRepos)
         repoCommits == RepoCommits(expCommits, repo)
         fileName == FileName(RepoName(repo))
     IN /\ exportsDir' =
             [n \in DOMAIN exportsDir \cup {fileName} |->
                IF n = fileName
                THEN Workbook(repoCommits, repo, expFilter, answer)
                ELSE exportsDir[n]]
        /\ generatedFiles' = Append(generatedFiles, [fileName |-> fileName])
  /\ generatorAnswers' = Append(generatorAnswers, answer)
  /\ expRepos' = Tail(expRepos)
  /\ UNCHANGED <<expPc, expFilter, expCommits, exportJobs, expResponse,
                 storeVars, sumVars, drainVars, jobVars, pollVars, sideVars>>

\* workbook.xlsx.writeBuffer() or writeFile throws: the outer catch answers
\* 500; what was written before stays where it is
ExportWriteFails ==
  /\ expPc = "repos"
  /\ expRepos # <<>>
  /\ expPc' = "done"
  /\ expResponse' = ExportError(500)
  /\ UNCHANGED <<expFilter, expCommits, expRepos, generatedFiles,
                 generatorAnswers, exportsDir, exportJobs, storeVars, sumVars,
                 drainVars, jobVars, pollVars, sideVars>>

\* Mutant: an export of nothing answers as a success.
EmptySuccess == [kind |-> "success", exportId |-> 0, files |-> <<>>,
                 totalCommits |-> 0]

\* { error: 'No commits found for selected repositories' }, { status: 400 }
NoCommitsFound == ExportError(400)

\* if (generatedFiles.length === 0) return 400
ExportNoCommits ==
  /\ expPc = "repos"
  /\ expRepos = <<>>
  /\ generatedFiles = <<>>
  /\ expPc' = "done"
  /\ expResponse' = NoCommitsFound
  /\ UNCHANGED <<expFilter, expCommits, expRepos, generatedFiles,
                 generatorAnswers, exportsDir, exportJobs, storeVars, sumVars,
                 drainVars, jobVars, pollVars, sideVars>>

\* data of prisma.exportJob.create: startDate, endDate, authorEmail, repoIds
FilterSnapshot(f) ==
  [startDate |-> f.startDate, endDate |-> f.endDate,
   authorEmail |-> f.authorEmail, repoIds |-> f.repoIds]

NewExportJob ==
  [id |-> Cardinality(exportJobs) + 1, filter |-> FilterSnapshot(expFilter),
   status |-> "COMPLETED",
   fileName |-> [i \in 1..Len(generatedFiles) |-> generatedFiles[i].fileName],
   rowCount |-> Len(expCommits)]

\* prisma.exportJob.create and the response
ExportRecord ==
  /\ expPc = "repos"
  /\ expRepos = <<>>
  /\ generatedFiles # <<>>
  /\ exportJobs' = exportJobs \cup {NewExportJob}
  /\ expResponse' = [kind |-> "success", exportId |-> NewExportJob.id,
                     files |-> generatedFiles, totalCommits |-> Len(expCommits)]
  /\ expPc' = "done"
  /\ UNCHANGED <<expFilter, expCommits, expRepos, generatedFiles,
                 generatorAnswers, exportsDir, storeVars, sumVars, drainVars,
                 jobVars, pollVars, sideVars>>

\* prisma.exportJob.create throws: the outer catch answers 500
ExportRecordFails ==
  /\ expPc = "repos"
  /\ expRepos = <<>>
  /\ generatedFiles # <<>>
  /\ expPc' = "done"
  /\ expResponse' = ExportError(500)
  /\ UNCHANGED <<expFilter, expCommits, expRepos, generatedFiles,
                 generatorAnswers, exportsDir, exportJobs, storeVars, sumVars,
                 drainVars, jobVars, pollVars, sideVars>>

(***************************************************************************)
(* Repositories and credentials: POST /api/repos and                       *)
(* DELETE /api/credentials/[id]. Each handler reads, then writes; another  *)
(* request may run between the two queries.                                *)
(***************************************************************************)
CredIds == {"k1", "k2"}
\* The ids a request may name: the credentials and one that never existed.
CredArgs == CredIds \cup {"k9"}
CrudSlots == 1..MaxCrud

IdleRequest == [op |-> "none", cred |-> Null, pc |-> "idle", code |-> 0]
Answered(op, cred, code) == [op |-> op, cred |-> cred, pc |-> "done", code |-> code]

\* Repository.credentialId is a foreign key; what the store does to the
\* repositories of a credential that is deleted is set by the schema.
ReferentialActions == {"Restrict", "SetNull"}

\* _count: { select: { repositories: true } }
UsedBy(id) == {r \in repoTable : r.credentialId = id}

NewRepository(cred) == [id |-> Cardinality(repoTable) + 1, credentialId |-> cred]

\* POST: no credentialId in the body, prisma.repository.create
RepoCreatePlain(s) ==
  /\ crud[s].pc = "idle"
  /\ Cardinality(repoTable) < MaxRepoRows
  /\ repoTable' = repoTable \cup {NewRepository(Null)}
  /\ crud' = [crud EXCEPT ![s] = Answered("createRepo", Null, 200)]
  /\ UNCHANGED <<credentials, onDelete, nameVars, parseVars, storeVars, sumVars,
                 drainVars, jobVars, pollVars, expVars>>

\* const credential = await prisma.credential.findUnique(...); if (!credential)
CredentialFound(cred) == cred \in credentials

\* POST: if (data.credentialId) { findUnique; if (!credential) return 400 }
RepoCheckCredential(s, cred) ==
  /\ crud[s].pc = "idle"
  /\ crud' = [crud EXCEPT ![s] =
                IF CredentialFound(cred)
                THEN [op |-> "createRepo", cred |-> cred, pc |-> "checked", code |-> 0]
                ELSE Answered("createRepo", cred, 400)]
  /\ UNCHANGED <<credentials, repoTable, onDelete, nameVars, parseVars, storeVars,
                 sumVars, drainVars, jobVars, pollVars, expVars>>

\* POST: prisma.repository.create({ data: { ..., credentialId } }); the store
\* rejects a reference to a credential that is gone and the catch answers 500
RepoCreate(s) ==
  /\ crud[s].pc = "checked"
  /\ crud[s].op = "createRepo"
  /\ Cardinality(repoTable) < MaxRepoRows
  /\ IF crud[s].cred \in credentials
     THEN /\ repoTable' = repoTable \cup {NewRepository(crud[s].cred)}
          /\ crud' = [crud EXCEPT ![s] = Answered("createRepo", crud[s].cred, 200)]
     ELSE /\ repoTable' = repoTable
          /\ crud' = [crud EXCEPT ![s] = Answered("createRepo", crud[s].cred, 500)]
  /\ UNCHANGED <<credentials, onDelete, nameVars, parseVars, storeVars, sumVars,
                 drainVars, jobVars, pollVars, expVars>>

\* DELETE: findUnique with the count of repositories;
\* if (!credential) return 404; if (credential._count.repositories > 0) return 400
CredCheckUnused(s, id) ==
  /\ crud[s].pc = "idle"
  /\ crud' = [crud EXCEPT ![s] =
                IF id \notin credentials THEN Answered("deleteCred", id, 404)
                ELSE IF UsedBy(id) # {} THEN Answered("deleteCred", id, 400)
                ELSE [op |-> "deleteCred", cred |-> id, pc |-> "checked", code |-> 0]]
  /\ UNCHANGED <<credentials, repoTable, onDelete, nameVars, parseVars, storeVars,
                 sumVars, drainVars, jobVars, pollVars, expVars>>

\* DELETE: await prisma.credential.delete({ where: { id } }); a delete of a
\* row that is gone, or one the store restricts, throws and the catch answers 500
CredDelete(s) ==
  /\ crud[s].pc = "checked"
  /\ crud[s].op = "deleteCred"
  /\ LET id == crud[s].cred
     IN IF id \notin credentials \/ (UsedBy(id) # {} /\ onDelete = "Restrict")
        THEN /\ crud' = [crud EXCEPT ![s] = Answered("deleteCred", id, 500)]
             /\ UNCHANGED <<credentials, repoTable>>
        ELSE /\ credentials' = credentials \ {id}
             /\ repoTable' = {IF r.credentialId = id
                              THEN [r EXCEPT !.credentialId = Null] ELSE r
                                : r \in repoTable}
             /\ crud' = [crud EXCEPT ![s] = Answered("deleteCred", id, 200)]
  /\ UNCHANGED <<onDelete, nameVars, parseVars, storeVars, sumVars, drainVars,
                 jobVars, pollVars, expVars>>

\* The response is read; the slot serves the next request.
CrudRespond(s) ==
  /\ crud[s].pc = "done"
  /\ crud' = [crud EXCEPT ![s] = IdleRequest]
  /\ UNCHANGED <<credentials, repoTable, onDelete, nameVars, parseVars, storeVars,
                 sumVars, drainVars, jobVars, pollVars, expVars>>

(***************************************************************************)
(* POST /api/export: the names of the sheets and of the files, for         *)
(* repositories of any name.                                               *)
(***************************************************************************)
RepoNames == {"Web App", "api", "web-app", "infra/ops",
              "platform-billing-gateway-ui", "platform-billing-gateway-api"}

\* name.replace(/[\\/:?*\[\]]/g, '')
RECURSIVE StripForbidden(_)
StripForbidden(s) ==
  IF s = <<>> THEN <<>>
  ELSE IF Head(s) \in {"\\", "/", ":", "?", "*", "[", "]"}
       THEN StripForbidden(Tail(s))
       ELSE <<Head(s)>> \o StripForbidden(Tail(s))

\* s.slice(from, to)
slice(s, from, to) == SubSeq(s, from + 1, Min(Len(s), to))

sanitizeSheetName(s) == slice(StripForbidden(s), 0, SheetNameLimit)

\* `${repoData.repoName} - Summary`, ` - File Summary`, ` - Git Commits`
SheetTitles(name) ==
  <<NameChars(name) \o <<" ", "-", " ", "S", "u", "m", "m", "a", "r", "y">>,
    NameChars(name) \o <<" ", "-", " ", "F", "i", "l", "e", " ", "S", "u", "m",
                         "m", "a", "r", "y">>,
    NameChars(name) \o <<" ", "-", " ", "G", "i", "t", " ", "C", "o", "m", "m",
                         "i", "t", "s">>>>

SheetNamesOf(name) ==
  [i \in 1..3 |-> sanitizeSheetName(SheetTitles(name)[i])]

\* The repoEntries of one export: repositories of distinct names, sorted by
\* name.
NamedEntries(n) ==
  UNION {{s \in [1..k -> RepoNames] :
            \A i, j \in 1..k : i < j => localeCompare(s[i], s[j]) < 0}
           : k \in 1..n}

\* One turn of the loop, up to the third addWorksheet: a sheet name the
\* workbook already has makes addWorksheet throw, and the outer catch
\* answers 500.
AddWorksheets ==
  /\ namePc.state = "sheets"
  /\ namePc.at <= Len(repoNames)
  /\ LET names == SheetNamesOf(repoNames[namePc.at])
     IN IF \A i, j \in 1..3 : i < j => names[i] /= names[j]
        THEN /\ sheetNames' = names
             /\ namePc' = [namePc EXCEPT !.state = "write"]
        ELSE /\ sheetNames' = names
             /\ namePc' = [namePc EXCEPT !.state = "failed"]
  /\ UNCHANGED <<repoNames, namedFiles, namedDir, crudVars, parseVars, storeVars,
                 sumVars, drainVars, jobVars, pollVars, expVars>>

\* The rest of the turn: writeFile(path.join(exportsDir, fileName)) and
\* generatedFiles.push
WriteNamedFile ==
  /\ namePc.state = "write"
  /\ LET name == repoNames[namePc.at]
         fileName == FileName(name)
     IN /\ namedDir' = [f \in DOMAIN namedDir \cup {fileName} |->
                          IF f = fileName THEN name ELSE namedDir[f]]
        /\ namedFiles' = Append(namedFiles, fileName)
  /\ namePc' = [at |-> namePc.at + 1, state |-> "sheets"]
  /\ UNCHANGED <<repoNames, sheetNames, crudVars, parseVars, storeVars, sumVars,
                 drainVars, jobVars, pollVars, expVars>>

\* The loop is over.
NamesDone ==
  /\ namePc.state = "sheets"
  /\ namePc.at > Len(repoNames)
  /\ namePc' = [namePc EXCEPT !.state = "done"]
  /\ UNCHANGED <<repoNames, sheetNames, namedFiles, namedDir, crudVars, parseVars,
                 storeVars, sumVars, drainVars, jobVars, pollVars, expVars>>

(***************************************************************************)
(* Ingestion: the ticket key of a commit. A text is a sequence of           *)
(* characters; the title is the first line of the message, the body the    *)
(* rest.                                                                   *)
(***************************************************************************)
IsLetter(ch) ==
  ch \in {"A", "B", "C", "D", "E", "F", "G", "H", "I", "J", "K", "L", "M",
          "N", "O", "P", "Q", "R", "S", "T", "U", "V", "W", "X", "Y", "Z",
          "a", "b", "c", "d", "e", "f", "g", "h", "i", "j", "k", "l", "m",
          "n", "o", "p", "q", "r", "s", "t", "u", "v", "w", "x", "y", "z"}

IsDigit(ch) == ch \in {"0", "1", "2", "3", "4", "5", "6", "7", "8", "9"}

\* The characters the bounded texts are made of.
TextChars == {"P", "j", "-", "7", " "}
Texts(n) == UNION {[1..k -> TextChars] : k \in 0..n}

TitleFixOverflow == <<"P", "R", "O", "J", "-", "1", "2", "3", ":", " ", "f", "i", "x", " ", "o", "v", "e", "r", "f", "l", "o", "w">>
TitleCleanup == <<"g", "e", "n", "e", "r", "a", "l", " ", "c", "l", "e", "a", "n", "u", "p">>

NoKey == <<>>
JiraBase == "<base>"

\* The first position from i on that does not hold a letter.
RECURSIVE LettersEnd(_, _)
LettersEnd(text, i) ==
  IF i <= Len(text) /\ IsLetter(text[i]) THEN LettersEnd(text, i + 1) ELSE i

\* The first position from i on that does not hold a digit.
RECURSIVE DigitsEnd(_, _)
DigitsEnd(text, i) ==
  IF i <= Len(text) /\ IsDigit(text[i]) THEN DigitsEnd(text, i + 1) ELSE i

\* The last position of a key that starts at i, or 0: letters, a dash, digits.
MatchAt(text, i) ==
  LET dash == LettersEnd(text, i)
  IN IF /\ dash > i
        /\ dash < Len(text)
        /\ text[dash] = "-"
        /\ IsDigit(text[dash + 1])
     THEN DigitsEnd(text, dash + 1) - 1
     ELSE 0

\* The scan from the left: the first match wins.
RECURSIVE ScanFrom(_, _)
ScanFrom(text, i) ==
  IF i > Len(text) THEN NoKey
  ELSE IF MatchAt(text, i) > 0 THEN SubSeq(text, i, MatchAt(text, i))
       ELSE ScanFrom(text, i + 1)

FirstMatch(text) == ScanFrom(text, 1)

\* Mutant: the body is scanned before the title.
ExtractKeyBodyFirst(title, body) ==
  IF FirstMatch(body) # NoKey THEN FirstMatch(body) ELSE FirstMatch(title)

\* scan the commit title then body; first match wins
ExtractKey(title, body) ==
  IF FirstMatch(title) # NoKey THEN FirstMatch(title) ELSE FirstMatch(body)

\* a derived URL built from a configured base plus /browse/<key>
BrowseUrl(key) == IF key = NoKey THEN NoKey ELSE <<JiraBase, "/browse/", key>>

\* Extract JIRA key from message: the commit is stored with the key and the
\* URL, or with neither.
ParseCommit ==
  /\ ~ticket.parsed
  /\ LET key == ExtractKey(rawCommit.title, rawCommit.body)
     IN ticket' = [parsed |-> TRUE, jiraKey |-> key, jiraUrl |-> BrowseUrl(key)]
  /\ UNCHANGED <<rawCommit, crudVars, nameVars, storeVars, sumVars, drainVars,
                 jobVars, pollVars, expVars>>

(***************************************************************************)
(* Specifications.                                                         *)
(***************************************************************************)
vars == <<commits, lastUpsert, pc, scope, batch, idx, successCount, failCount,
          rateLimited, result, drain, selectedRepo,
          totalSuccess, totalFailed, hasMore, lastResult, jobs, dispatch,
          counted, lastSubmit, clientJob, started, polls, lastRead, seenTerminal,
          expPc, expFilter, expCommits, expRepos, generatedFiles,
          generatorAnswers, exportsDir, exportJobs, expResponse, credentials,
          repoTable, crud, onDelete, repoNames, namePc, sheetNames, namedFiles,
          namedDir, rawCommit, ticket>>

InitPoll ==
  /\ clientJob = NoJob
  /\ started = {}
  /\ polls = [s \in PollSlots |-> NoPoll]
  /\ lastRead = [i \in 1..MaxJobs |-> [prev |-> NoJob, cur |-> NoJob]]
  /\ seenTerminal = {}

InitExport ==
  /\ expPc = "idle"
  /\ expFilter = <<>>
  /\ expCommits = <<>>
  /\ expRepos = <<>>
  /\ generatedFiles = <<>>
  /\ generatorAnswers = <<>>
  /\ exportsDir = <<>>
  /\ exportJobs = {}
  /\ expResponse = [kind |-> "none"]

InitNames ==
  /\ repoNames = <<>>
  /\ namePc = [at |-> 1, state |-> "idle"]
  /\ sheetNames = <<>>
  /\ namedFiles = <<>>
  /\ namedDir = <<>>

InitParse ==
  /\ rawCommit = [title |-> <<>>, body |-> <<>>]
  /\ ticket = [parsed |-> FALSE, jiraKey |-> <<>>, jiraUrl |-> <<>>]

InitCore ==
  /\ pc = [c \in Callers |-> "idle"]
  /\ scope = [c \in Callers |-> NoRepo]
  /\ batch = [c \in Callers |-> <<>>]
  /\ idx = [c \in Callers |-> 1]
  /\ successCount = [c \in Callers |-> 0]
  /\ failCount = [c \in Callers |-> 0]
  /\ rateLimited = [c \in Callers |-> FALSE]
  /\ result = [c \in Callers |-> [kind |-> "none"]]
  /\ drain = [c \in Callers |-> "idle"]
  /\ selectedRepo = [c \in Callers |-> NoRepo]
  /\ totalSuccess = [c \in Callers |-> 0]
  /\ totalFailed = [c \in Callers |-> 0]
  /\ hasMore = [c \in Callers |-> FALSE]
  /\ lastResult = [c \in Callers |-> [kind |-> "none"]]
  /\ jobs = {}
  /\ dispatch = <<>>
  /\ counted = {}
  /\ lastSubmit = [repositoryId |-> Null, code |-> 0, id |-> 0, status |-> Null]
  /\ InitPoll
  /\ InitExport

\* No repository, every credential, no request in flight.
InitCrud ==
  /\ credentials = CredIds
  /\ repoTable = {}
  /\ crud = [s \in CrudSlots |-> IdleRequest]

InitRequests ==
  /\ InitCore
  /\ InitCrud
  /\ onDelete = "Restrict"
  /\ InitNames
  /\ InitParse

\* The store before any ingestion.
Init ==
  /\ commits = {}
  /\ lastUpsert = [repositoryId |-> Null, sha |-> Null, inserted |-> FALSE]
  /\ InitRequests

\* The stores an ingestion leaves: fresh rows of distinct (repository, sha).
Ingest(pairs) ==
  {[id |-> <<p[1], p[2], 0>>, repositoryId |-> p[1], sha |-> p[2],
    commitDate |-> CommitDate(p[2]), summary |-> Null,
    summaryStatus |-> "PENDING"] : p \in pairs}

Backlogs(n) ==
  {Ingest(pairs) : pairs \in {P \in SUBSET (Repositories \X Shas) :
                                Cardinality(P) <= n}}

InitBacklog(n) ==
  /\ commits \in Backlogs(n)
  /\ lastUpsert = [repositoryId |-> Null, sha |-> Null, inserted |-> FALSE]
  /\ InitRequests

\* Summarize requests running at the same time over an ingested backlog.
Next ==
  \/ \E c \in Callers : \E sc \in Scopes : Start(c, sc)
  \/ \E c \in Callers : Step(c)

Spec == InitBacklog(MaxRace) /\ [][Next]_vars

\* One summarize request at a time, with ingestion going on.
Quiet == \A c \in Callers : pc[c] = "idle"

NextSeq ==
  \/ \E r \in Repositories, s \in Shas : Upsert(r, s)
  \/ \E c \in Callers : \E sc \in Scopes : Quiet /\ Start(c, sc)
  \/ \E c \in Callers : Step(c)

SpecSeq == Init /\ [][NextSeq]_vars

Client == "c1"

\* One summarize request over a backlog longer than a batch, every commit of
\* its own date; the generator answers with a text or with a rate-limit
\* signal, the store may reject an update.
LongBacklog(n) ==
  {[id |-> <<"r1", k, 0>>, repositoryId |-> "r1", sha |-> k, commitDate |-> k,
    summary |-> Null, summaryStatus |-> "PENDING"] : k \in 1..n}

InitLongBacklog ==
  /\ commits = LongBacklog(BacklogSize)
  /\ lastUpsert = [repositoryId |-> Null, sha |-> Null, inserted |-> FALSE]
  /\ InitRequests

BatchResponses == {"ok_text", "http_429"}

NextBatch ==
  \/ Start(Client, NoRepo)
  \/ MarkProcessing(Client)
  \/ \E r \in BatchResponses : RevertPending(Client, r)
  \/ \E r \in BatchResponses : StoreSummary(Client, r)
  \/ \E r \in BatchResponses : StoreThrows(Client, r)
  \/ Delay(Client)
  \/ CatchFailed(Client)
  \/ CatchThrows(Client)
  \/ ReturnResult(Client)

SpecBatch == InitLongBacklog /\ [][NextBatch]_vars

\* A client draining a backlog that no ingestion extends. Every request that
\* was sent is served and every response is read, and the client keeps
\* invoking the drain again.

NextDrain ==
  \/ \E sc \in Scopes : DrainBegin(Client, sc)
  \/ DrainFetch(Client)
  \/ Step(Client)
  \/ DrainEnd(Client)

SpecDrain ==
  /\ InitBacklog(MaxCommits)
  /\ [][NextDrain]_vars
  /\ WF_vars(DrainFetch(Client) \/ Step(Client) \/ DrainEnd(Client))
  /\ WF_vars(\E sc \in Scopes : DrainBegin(Client, sc))

\* Job submissions and the extraction service's reports.
NextJobs ==
  \/ \E repo \in RepoIds : Submit(repo)
  \/ \E id \in 1..MaxJobs : DispatchDelivered(id)
  \/ \E id \in 1..MaxJobs : DispatchFailed(id)
  \/ \E id \in 1..MaxJobs : BeginCloning(id)
  \/ \E id \in 1..MaxJobs : CloneResolved(id)
  \/ \E id \in 1..MaxJobs : \E n \in 0..MaxWalk : ReportTotal(id, n)
  \/ \E id \in 1..MaxJobs : ReportProgress(id)
  \/ \E id \in 1..MaxJobs : CompleteJob(id)
  \/ \E id \in 1..MaxJobs : FailJob(id)

SpecJobs == Init /\ [][NextJobs]_vars

\* The analyze page: submissions from its button, its status polls, and the
\* extraction service's reports.
NextPoll ==
  \/ \E repo \in Repositories : HandleAnalyze(repo)
  \/ ReadSubmit
  \/ Tick
  \/ \E s \in PollSlots : GetStatus(s)
  \/ \E s \in PollSlots : ReadStatus(s)
  \/ \E id \in 1..MaxJobs : DispatchDelivered(id)
  \/ \E id \in 1..MaxJobs : DispatchFailed(id)
  \/ \E id \in 1..MaxJobs : BeginCloning(id)
  \/ \E id \in 1..MaxJobs : CloneResolved(id)
  \/ \E id \in 1..MaxJobs : \E n \in 0..MaxWalk : ReportTotal(id, n)
  \/ \E id \in 1..MaxJobs : ReportProgress(id)
  \/ \E id \in 1..MaxJobs : CompleteJob(id)
  \/ \E id \in 1..MaxJobs : FailJob(id)

SpecPoll == Init /\ [][NextPoll]_vars

\* Repository creations and credential deletions in flight together, under
\* either referential action.
InitCrudStore ==
  /\ commits = {}
  /\ lastUpsert = [repositoryId |-> Null, sha |-> Null, inserted |-> FALSE]
  /\ InitCore
  /\ InitCrud
  /\ onDelete \in ReferentialActions
  /\ InitNames
  /\ InitParse

NextCrud ==
  \/ \E s \in CrudSlots : RepoCreatePlain(s)
  \/ \E s \in CrudSlots : \E cred \in CredArgs : RepoCheckCredential(s, cred)
  \/ \E s \in CrudSlots : RepoCreate(s)
  \/ \E s \in CrudSlots : \E id \in CredArgs : CredCheckUnused(s, id)
  \/ \E s \in CrudSlots : CredDelete(s)
  \/ \E s \in CrudSlots : CrudRespond(s)

SpecCrud == InitCrudStore /\ [][NextCrud]_vars

\* The loop of one export over repositories of arbitrary names.
InitNamed ==
  /\ commits = {}
  /\ lastUpsert = [repositoryId |-> Null, sha |-> Null, inserted |-> FALSE]
  /\ InitCore
  /\ InitCrud
  /\ onDelete = "Restrict"
  /\ InitParse
  /\ repoNames \in NamedEntries(MaxNamed)
  /\ namePc = [at |-> 1, state |-> "sheets"]
  /\ sheetNames = <<>>
  /\ namedFiles = <<>>
  /\ namedDir = <<>>

NextNames ==
  \/ AddWorksheets
  \/ WriteNamedFile
  \/ NamesDone

SpecNames == InitNamed /\ [][NextNames]_vars

\* The extraction service parsing one commit of any title and body.
InitCommitText ==
  /\ commits = {}
  /\ lastUpsert = [repositoryId |-> Null, sha |-> Null, inserted |-> FALSE]
  /\ InitCore
  /\ InitCrud
  /\ onDelete = "Restrict"
  /\ InitNames
  /\ rawCommit \in [title : Texts(MaxText) \cup {TitleFixOverflow, TitleCleanup},
                     body : Texts(MaxText)]
  /\ ticket = [parsed |-> FALSE, jiraKey |-> <<>>, jiraUrl |-> <<>>]

NextParse == ParseCommit

SpecParse == InitCommitText /\ [][NextParse]_vars

\* One export request over a store that ingestion has filled.
InitExportStore ==
  /\ commits \in ExportStores(MaxExport)
  /\ lastUpsert = [repositoryId |-> Null, sha |-> Null, inserted |-> FALSE]
  /\ InitRequests

NextExport ==
  \/ \E f \in ExportFilters : ExportLoad(f)
  \/ \E f \in ExportFilters : ExportLoadFails(f)
  \/ \E answer \in GeneratorAnswers : ExportWriteRepo(answer)
  \/ ExportWriteFails
  \/ ExportNoCommits
  \/ ExportRecord
  \/ ExportRecordFails

SpecExport == InitExportStore /\ [][NextExport]_vars

(***************************************************************************)
(* Properties.                                                             *)
(***************************************************************************)
Terminal == {"COMPLETED", "FAILED"}
FailureResponses == {"no_api_key", "http_error", "network_error", "ok_empty"}
InScope(r, sc) == sc = NoRepo \/ r.repositoryId = sc

\* C1: two summarize requests running at the same time never have the same
\* commit in hand: while one has marked a commit PROCESSING and is calling the
\* text generator for it, the other has not marked it and is not calling the
\* generator for it.
C1_NoDoubleProcessing ==
  \A c1, c2 \in Callers :
    (c1 /= c2 /\ pc[c1] = "marked" /\ pc[c2] = "marked") => Cur(c1) /= Cur(c2)

\* The commit a rate-limited request was throttled on.
Throttled(c) == batch[c][idx[c] - 1]

C3_RestKept ==
  \A c \in Callers :
    (pc[c] \in {"loop", "done"} /\ rateLimited[c]) =>
      \A i \in idx[c]..Len(batch[c]) :
        RowOf(batch[c][i]).summaryStatus = "PENDING"

C3_OnlyReturns ==
  \A c \in Callers :
    (pc[c] = "loop" /\ rateLimited[c] /\ pc'[c] /= pc[c]) =>
      /\ pc'[c] = "done"
      /\ commits' = commits
      /\ result'[c].kind = "batch"
      /\ result'[c].rateLimited

ZeroResult(res) ==
  res.kind /= "none" /\ ResultSuccess(res) = 0 /\ ResultFailed(res) = 0
  /\ ~ResultRateLimited(res)

\* C4 as stated: a drain that was begun eventually reads a result with zero
\* successes, zero failures and rateLimited = false.
C4_EventuallyZeroResult ==
  (drain[Client] = "processing") ~> ZeroResult(lastResult[Client])

\* C4 as amended: a drain that was begun eventually reads a result that has
\* rateLimited = true or zero successes and zero failures, and then ends.
C4_DrainTerminates ==
  (drain[Client] = "processing") ~>
    (drain[Client] = "completed" /\ StopsDrain(lastResult[Client]))

C4_Witness ==
  /\ drain[Client] = "completed"
  /\ ZeroResult(lastResult[Client])
  /\ totalSuccess[Client] > 1

\* C5: a request selects every FAILED commit of its scope (the backlog being
\* smaller than the batch size).
C5_SelectsFailed ==
  \A c \in Callers :
    (pc[c] = "idle" /\ pc'[c] /= "idle") =>
      \A r \in commits :
        (r.summaryStatus = "FAILED" /\ InScope(r, scope'[c])) =>
          r.id \in Range(batch'[c])

C5_FailedRetried == [][C5_SelectsFailed]_vars

\* C6: no summary is stored for a commit whose generator call failed for a
\* reason other than rate limiting: the text of such a failure is in no row,
\* and the row is not COMPLETED by it.
C6_FailureStoresNothing ==
  \A row \in commits : \A r \in FailureResponses :
    row.summary /= summarizeCommit(r)

\* C7: the store holds at most one row per (repositoryId, sha), and an upsert
\* of a pair that is present reports inserted = false and changes no row,
\* while an upsert of an absent pair reports inserted = true.
C7_Unique ==
  \A r1, r2 \in commits :
    (r1.repositoryId = r2.repositoryId /\ r1.sha = r2.sha) => r1 = r2

C7_UpsertStep ==
  lastUpsert' /= lastUpsert =>
    IF Exists(commits, lastUpsert'.repositoryId, lastUpsert'.sha)
    THEN ~lastUpsert'.inserted /\ commits' = commits
    ELSE lastUpsert'.inserted /\ Cardinality(commits') = Cardinality(commits) + 1

C7_IdempotentUpsert == [](C7_Unique) /\ [][C7_UpsertStep]_vars

C7_Witness ==
  /\ ~lastUpsert.inserted
  /\ \E r \in commits :
       /\ r.repositoryId = lastUpsert.repositoryId
       /\ r.sha = lastUpsert.sha
       /\ r.summaryStatus = "COMPLETED"
       /\ r.summary = GeneratedText

\* C8: submit answers with the id and the PENDING status of the job it
\* persisted while the dispatch is still in flight, and a dispatch that fails
\* changes no job: the job of a failed dispatch is PENDING.
C8_FailedDispatchPending ==
  \A id \in JobIds : dispatch[id] = "failed" => JobOf(id).status = "PENDING"

C8_SubmitStep ==
  /\ (lastSubmit' /= lastSubmit /\ lastSubmit'.code = 200) =>
       /\ lastSubmit'.status = "PENDING"
       /\ lastSubmit'.id \notin JobIds
       /\ \E j \in jobs' : j.id = lastSubmit'.id /\ j.status = "PENDING"
       /\ dispatch'[lastSubmit'.id] = "inflight"
  /\ \A id \in JobIds :
       (dispatch[id] = "inflight" /\ dispatch'[id] = "failed") =>
         jobs' = jobs /\ lastSubmit' = lastSubmit

C8_SubmitDoesNotAwait == [](C8_FailedDispatchPending) /\ [][C8_SubmitStep]_vars

C8_Witness ==
  \E id \in JobIds :
    /\ dispatch[id] = "failed"
    /\ JobOf(id).status = "PENDING"
    /\ lastSubmit.code = 200
    /\ lastSubmit.id = id

\* C9: a submit that names a repository that does not exist answers 404,
\* creates no job and dispatches nothing.
C9_SubmitStep ==
  (lastSubmit' /= lastSubmit /\ lastSubmit'.repositoryId \notin Repositories) =>
    /\ lastSubmit'.code = 404
    /\ jobs' = jobs
    /\ dispatch' = dispatch

C9_JobsOfRepositories == \A j \in jobs : j.repositoryId \in Repositories

C9_UnknownRepository == [](C9_JobsOfRepositories) /\ [][C9_SubmitStep]_vars

C9_Witness ==
  /\ lastSubmit.code = 404
  /\ lastSubmit.repositoryId \notin Repositories
  /\ jobs /= {}

\* C10: a job is created PENDING; its status changes only along
\* PENDING -> CLONING -> PARSING -> COMPLETED, or from CLONING or PARSING to
\* FAILED; a COMPLETED or FAILED job never changes; only FAILED jobs carry an
\* error.
JobTransitions ==
  {<<"PENDING", "CLONING">>, <<"CLONING", "PARSING">>, <<"PARSING", "COMPLETED">>,
   <<"CLONING", "FAILED">>, <<"PARSING", "FAILED">>}

C10_ErrorOnlyOnFailed == \A j \in jobs : j.error /= Null => j.status = "FAILED"

C10_JobStep ==
  \A n \in jobs' :
    IF n.id \notin JobIds
    THEN n.status = "PENDING" /\ n.error = Null
    ELSE LET j == JobOf(n.id)
         IN n /= j =>
              /\ j.status \notin Terminal
              /\ n.status /= j.status => <<j.status, n.status>> \in JobTransitions

C11_ReadsMonotonic ==
  \A id \in 1..MaxJobs :
    lastRead[id].prev.id # 0 =>
      lastRead[id].cur.processedCommits >= lastRead[id].prev.processedCommits

C11_WithinTotal ==
  /\ \A j \in jobs : j.id \in counted => j.processedCommits <= j.totalCommits
  /\ \A id \in 1..MaxJobs :
       (lastRead[id].cur.id # 0 /\ lastRead[id].cur.totalCommits > 0) =>
         lastRead[id].cur.processedCommits <= lastRead[id].cur.totalCommits

C11_MonotonicProgress == C11_ReadsMonotonic /\ C11_WithinTotal

C11_Witness ==
  \E id \in 1..MaxJobs :
    /\ lastRead[id].prev.id # 0
    /\ lastRead[id].prev.processedCommits = 1
    /\ lastRead[id].cur.processedCommits = 2
    /\ lastRead[id].cur.totalCommits = 2

\* C12: the page sends a status request only while the job it holds is not
\* terminal, and once a poll of a job has returned COMPLETED or FAILED it
\* sends no further status request for that job.
C12_TickStep ==
  \A s \in PollSlots :
    (polls[s].phase # "sent" /\ polls'[s].phase = "sent") =>
      /\ Polling
      /\ polls'[s].job \notin seenTerminal

C12_StopsOnTerminal == [][C12_TickStep]_vars

(***************************************************************************)
(* Properties of the report compiler.                                      *)
(***************************************************************************)
\* The repositories whose workbook the export has written, their commits as
\* the export ordered them, and the sheets of the workbook.
WrittenRepos ==
  IF expPc = "idle" THEN {}
  ELSE Range(RepoEntries(expCommits)) \ Range(expRepos)

WorkbookOf(repo) == exportsDir[FileName(RepoName(repo))]

ChangedPathsOf(cs) == UNION {Range(cs[i].changedPaths) : i \in 1..Len(cs)}
DatesOf(cs) == {FormatDate(cs[i].commitDate) : i \in 1..Len(cs)}

\* The merge heuristic and the cleaned message, as the report's contract
\* words them.
MergePrefixes ==
  {<<"merge", " ", "commit">>, <<"merge", " ", "pull", " ", "request">>,
   <<"merge", " ", "branch">>, <<"merge", " ", "remote-tracking">>}

MatchesMergeHeuristic(c) ==
  \E prefix \in MergePrefixes : startsWith(toLowerCase(RawMessage(c)), prefix)

Contributes(c) ==
  ~MatchesMergeHeuristic(c) /\ cleanMessage(RawMessage(c)) # <<>>

\* The contributing commits that changed the path on the date.
Touching(cs, filePath, date) ==
  {i \in 1..Len(cs) :
     /\ Contributes(cs[i])
     /\ filePath \in Range(cs[i].changedPaths)
     /\ FormatDate(cs[i].commitDate) = date}

ExpectedLine(c) == <<"- ">> \o cleanMessage(RawMessage(c))

GroupInCommitOrder(cs, filePath, group) ==
  LET T == Touching(cs, filePath, group.date)
  IN /\ Len(group.changes) = Cardinality(T)
     /\ \E o \in [1..Cardinality(T) -> T] :
          /\ Range(o) = T
          /\ \A k, l \in 1..Cardinality(T) :
               k < l => cs[o[k]].commitDate <= cs[o[l]].commitDate
          /\ \A k \in 1..Cardinality(T) : group.changes[k] = ExpectedLine(cs[o[k]])

OneGroupPerDate(cs, row) ==
  /\ \A k, l \in 1..Len(row.changes) :
       k # l => row.changes[k].date # row.changes[l].date
  /\ {row.changes[k].date : k \in 1..Len(row.changes)} =
       {d \in DatesOf(cs) : Touching(cs, row.file, d) # {}}
  /\ \A k \in 1..Len(row.changes) : GroupInCommitOrder(cs, row.file, row.changes[k])

\* C13: in the file-history sheet every changed path of a non-merge commit
\* with a non-empty cleaned message has exactly one date group per distinct
\* date on which it was changed, and the group holds the line of every such
\* commit of that date once, in ascending commit-date order.
C13_FileHistoryGrouping ==
  \A repo \in WrittenRepos :
    LET cs == RepoCommits(expCommits, repo)
        sheet == WorkbookOf(repo).fileSummary
    IN /\ \A k, l \in 1..Len(sheet) : k # l => sheet[k].file # sheet[l].file
       /\ {sheet[k].file : k \in 1..Len(sheet)} =
            {p \in ChangedPathsOf(cs) :
               \E d \in DatesOf(cs) : Touching(cs, p, d) # {}}
       /\ \A k \in 1..Len(sheet) : OneGroupPerDate(cs, sheet[k])

\* Two commits of one day changed the same file: one group, two lines.
C13_Witness ==
  \E repo \in WrittenRepos :
    \E k \in 1..Len(WorkbookOf(repo).fileSummary) :
      LET row == WorkbookOf(repo).fileSummary[k]
      IN /\ Len(row.changes) = 1
         /\ Len(row.changes[1].changes) = 2
         /\ row.changes[1].changes[1] # row.changes[1].changes[2]

LinesOf(row) ==
  LET n == Len(row.changes)
      count[k \in 0..n] ==
        IF k = 0 THEN 0 ELSE count[k - 1] + Len(row.changes[k].changes)
  IN count[n]

\* C14: a commit whose message starts, in any case, with one of the four
\* merge prefixes adds nothing to any file's history, and every other commit
\* whose cleaned message is not empty adds its line to each path it changed.
C14_MergeAddsNothing ==
  \A repo \in WrittenRepos :
    LET cs == RepoCommits(expCommits, repo)
        sheet == WorkbookOf(repo).fileSummary
    IN /\ \A k \in 1..Len(sheet) :
            LinesOf(sheet[k]) =
              Cardinality({i \in 1..Len(cs) :
                             /\ Contributes(cs[i])
                             /\ sheet[k].file \in Range(cs[i].changedPaths)})
       /\ \A i \in 1..Len(cs) :
            Contributes(cs[i]) =>
              \A p \in Range(cs[i].changedPaths) :
                \E k \in 1..Len(sheet) :
                  /\ sheet[k].file = p
                  /\ \E g \in Range(sheet[k].changes) :
                       /\ g.date = FormatDate(cs[i].commitDate)
                       /\ ExpectedLine(cs[i]) \in Range(g.changes)

\* A merge commit and another commit changed the same file, and the file's
\* history has the other commit's line only.
C14_Witness ==
  \E repo \in WrittenRepos :
    LET cs == RepoCommits(expCommits, repo)
        sheet == WorkbookOf(repo).fileSummary
    IN \E i, j \in 1..Len(cs) : \E k \in 1..Len(sheet) :
         /\ MatchesMergeHeuristic(cs[i])
         /\ Contributes(cs[j])
         /\ sheet[k].file \in Range(cs[i].changedPaths)
         /\ sheet[k].file \in Range(cs[j].changedPaths)
         /\ LinesOf(sheet[k]) = 1

\* The stored commits a filter with repository ids and author e-mails asks
\* for, as the contract words it.
Requested(f) ==
  {c \in commits :
     /\ c.repositoryId \in Range(f.repoIds)
     /\ c.authorEmail \in Range(f.authorEmails)
     /\ f.startDate # NoDate => c.commitDate >= DayStart(f.startDate)
     /\ f.endDate # NoDate => c.commitDate <= DayStart(f.endDate)}

\* C15: with repositoryIds and authorEmails given, the tabular sheet and the
\* file-history sheet hold only commits of those repositories by those
\* authors: every such commit has exactly one tabular row, and a commit by
\* another author adds neither a row nor a change description.
C15_OnlyRequestedCommits ==
  (expPc # "idle" /\ Len(expFilter.repoIds) > 0 /\ Len(expFilter.authorEmails) > 0) =>
    /\ WrittenRepos \subseteq Range(expFilter.repoIds)
    /\ \A repo \in WrittenRepos :
         LET M == {c \in Requested(expFilter) : c.repositoryId = repo}
             wb == WorkbookOf(repo)
         IN /\ Len(wb.gitCommits) = Cardinality(M)
            /\ {wb.gitCommits[k].commitCode : k \in 1..Len(wb.gitCommits)} =
                 {c.sha : c \in M}
            /\ \A k \in 1..Len(wb.gitCommits) :
                 wb.gitCommits[k].author[2] \in Range(expFilter.authorEmails)
            /\ \A k \in 1..Len(wb.fileSummary) :
                 LinesOf(wb.fileSummary[k]) =
                   Cardinality({c \in M :
                                  /\ Contributes(c)
                                  /\ wb.fileSummary[k].file \in Range(c.changedPaths)})
    /\ (expPc = "done" /\ expResponse.kind = "success") =>
         \A c \in Requested(expFilter) : c.repositoryId \in WrittenRepos

\* The store holds a requested commit and a commit of another author that
\* changed the same file, and the repository's workbook is written.
C15_Witness ==
  /\ expPc = "done"
  /\ expResponse.kind = "success"
  /\ expFilter.authorEmails = <<"a@x.com">>
  /\ expFilter.repoIds = <<"r1">>
  /\ \E c \in Requested(expFilter) : \E other \in commits :
       /\ other.repositoryId = c.repositoryId
       /\ other.authorEmail # c.authorEmail
       /\ Contributes(c) /\ Contributes(other)
       /\ Range(c.changedPaths) \cap Range(other.changedPaths) # {}

\* The i-th file the export generated: its repository's commits and the
\* report on its Summary sheet.
CommitsOfFile(i) == RepoCommits(expCommits, RepoEntries(expCommits)[i])
ReportOfFile(i) == exportsDir[generatedFiles[i].fileName].summary.report

\* C16: whenever the narrative generator is disabled, unreachable, throttled,
\* erroring or answers with an empty text, the report's summary is the locally
\* built text, and it names every distinct author, the date range, and the
\* exact numbers of commits and of files changed.
C16_LocalFallbackComplete ==
  \A i \in 1..Len(generatedFiles) :
    generatorAnswers[i] # "ok_text" =>
      LET cs == CommitsOfFile(i)
          report == ReportOfFile(i)
          range == DateRange(cs, expFilter)
      IN /\ Len(report) > 9
         /\ report[Len(report)][1] = "- AI summary unavailable ("
         /\ report[2] = <<range.start, " - ", range.end>>
         /\ report[4][1] = "- Authors: "
         /\ {cs[k].authorName : k \in 1..Len(cs)} \subseteq Range(report[4][2])
         /\ report[6] = <<"- Total commits: ", Len(cs)>>
         /\ report[7] = <<"- Files changed: ", TotalFilesChanged(cs)>>

\* A workbook of two authors' commits was written while the generator was
\* throttled.
C16_Witness ==
  \E i \in 1..Len(generatedFiles) :
    /\ generatorAnswers[i] = "http_429"
    /\ Cardinality({CommitsOfFile(i)[k].authorName :
                      k \in 1..Len(CommitsOfFile(i))}) = 2
    /\ TotalFilesChanged(CommitsOfFile(i)) > 2

\* C17: when loading or serialization fails at any point of an export, also
\* while a second or later repository is processed, the call answers with one
\* error, no COMPLETED ExportJob is recorded, and no file the call generated
\* remains in the exports directory.
C17_FailureLeavesNothing ==
  (expPc = "done" /\ expResponse.kind = "error" /\ expResponse.status = 500) =>
    /\ \A j \in exportJobs : j.status # "COMPLETED"
    /\ DOMAIN exportsDir = {}

\* C18: when no stored commit matches the filter, the export answers with an
\* error, generates no file and records no ExportJob.
C18_NoMatchIsError ==
  (expPc = "done" /\ \A c \in commits : ~Where(c, expFilter)) =>
    /\ expResponse.kind = "error"
    /\ generatedFiles = <<>>
    /\ DOMAIN exportsDir = {}
    /\ exportJobs = {}

\* The store holds commits, none matches, and the export answered 400.
C18_Witness ==
  /\ expPc = "done"
  /\ commits # {}
  /\ \A c \in commits : ~Where(c, expFilter)
  /\ expResponse.kind = "error"
  /\ expResponse.status = 400

\* C19: a successful export records exactly one ExportJob: its filter
\* snapshot is the requested filter (repository ids, author e-mails with the
\* authorEmails list, date range), its row count is the number of matched
\* commits returned as totalCommits, its file names are the generated files.
C19_ExportJobRecordsRequest ==
  (expPc = "done" /\ expResponse.kind = "success") =>
    /\ Cardinality(exportJobs) = 1
    /\ \A j \in exportJobs :
         /\ j.rowCount = expResponse.totalCommits
         /\ j.rowCount = Cardinality({c \in commits : Where(c, expFilter)})
         /\ Range(j.fileName) = DOMAIN exportsDir
         /\ j.filter.repoIds = expFilter.repoIds
         /\ j.filter.startDate = expFilter.startDate
         /\ j.filter.endDate = expFilter.endDate
         /\ "authorEmails" \in DOMAIN j.filter
         /\ j.filter.authorEmails = expFilter.authorEmails

\* Alphabetical order of the paths and calendar order of the days, as the
\* contract words them.
Alphabetical == <<"docs/a.md", "README.md", "src/x.ts">>
Before(a, b) ==
  \E i, j \in 1..Len(Alphabetical) :
    i < j /\ Alphabetical[i] = a /\ Alphabetical[j] = b
Newer(d, e) ==
  \/ d[3] > e[3]
  \/ d[3] = e[3] /\ d[2] > e[2]
  \/ d[3] = e[3] /\ d[2] = e[2] /\ d[1] > e[1]

\* C20: in the file-history sheet the files are in ascending alphabetical
\* order of path and the date groups of a file are newest first, in whatever
\* order the commits were loaded.
C20_SortedFilesAndDates ==
  \A repo \in WrittenRepos :
    LET sheet == WorkbookOf(repo).fileSummary
    IN /\ \A k, l \in 1..Len(sheet) :
            k < l => Before(sheet[k].file, sheet[l].file)
       /\ \A k \in 1..Len(sheet) :
            \A m, n \in 1..Len(sheet[k].changes) :
              m < n => Newer(sheet[k].changes[m].date, sheet[k].changes[n].date)

\* A sheet of several files, one of them changed in January and in February.
C20_Witness ==
  \E repo \in WrittenRepos :
    LET sheet == WorkbookOf(repo).fileSummary
    IN /\ Len(sheet) > 2
       /\ \E k \in 1..Len(sheet) :
            /\ Len(sheet[k].changes) = 2
            /\ sheet[k].changes[1].date[2] = 2
            /\ sheet[k].changes[2].date[2] = 1

\* C30: the job state the analyze page holds never goes back from COMPLETED or
\* FAILED to another status of the same job, and the processedCommits it holds
\* never decreases, whatever the order in which the responses of overlapping
\* status polls arrive.
C30_ClientStep ==
  (clientJob.id # 0 /\ clientJob'.id = clientJob.id)
    => /\ StopsPolling(clientJob.status) => StopsPolling(clientJob'.status)
       /\ clientJob'.processedCommits >= clientJob.processedCommits

C30_ClientNeverRegresses == [][C30_ClientStep]_vars

(***************************************************************************)
(* Properties of the summarization engine under interleaving.              *)
(***************************************************************************)
\* C23: every change of a commit's summaryStatus is PENDING -> PROCESSING,
\* PROCESSING -> COMPLETED, PROCESSING -> FAILED or PROCESSING -> PENDING, and
\* a COMPLETED commit keeps its status, also when several summarize requests
\* interleave.
C23_StatusStep ==
  \A r \in commits : \A q \in commits' :
    (q.id = r.id /\ q.summaryStatus /= r.summaryStatus)
      => <<r.summaryStatus, q.summaryStatus>> \in
           {<<"PENDING", "PROCESSING">>, <<"PROCESSING", "COMPLETED">>,
            <<"PROCESSING", "FAILED">>, <<"PROCESSING", "PENDING">>}

C23_StatusTransitions == [][C23_StatusStep]_vars

\* C26: in every reachable state a commit has a stored summary exactly when
\* its summaryStatus is COMPLETED, also when several summarize requests
\* interleave.
C26_SummaryIffCompleted ==
  \A r \in commits : (r.summary /= Null) <=> (r.summaryStatus = "COMPLETED")

\* C25: when a summarize request has returned, with a result or with an error
\* response, no commit of its batch that it marked PROCESSING is still
\* PROCESSING: each is COMPLETED, FAILED or PENDING.
C25_NothingLeftProcessing ==
  \A c \in Callers :
    pc[c] = "done"
      => \A i \in 1..Len(batch[c]) :
           RowOf(batch[c][i]).summaryStatus /= "PROCESSING"

\* C22: one summarize request works through its batch one commit after
\* another, newest commit date first: while its generator call for a commit is
\* in flight every earlier commit of the batch has been written COMPLETED or
\* FAILED and no later one has been touched, so at most one commit of the
\* batch is in hand; and after a success the request passes through the delay
\* before it turns to the next commit.
C22_NewestFirst ==
  \A c \in Callers : \A i, j \in 1..Len(batch[c]) :
    i < j => RowOf(batch[c][i]).commitDate >= RowOf(batch[c][j]).commitDate

C22_OneAtATime ==
  \A c \in Callers :
    pc[c] \in {"marked", "catch", "delay"}
      => /\ \A i \in 1..Len(batch[c]) :
              i < idx[c] => RowOf(batch[c][i]).summaryStatus \in {"COMPLETED", "FAILED"}
         /\ \A i \in 1..Len(batch[c]) :
              i > idx[c] => RowOf(batch[c][i]).summaryStatus = "PENDING"
         /\ {i \in 1..Len(batch[c]) : RowOf(batch[c][i]).summaryStatus = "PROCESSING"}
              \subseteq {idx[c]}

C22_DelayStep ==
  \A c \in Callers :
    /\ (pc[c] = "marked" /\ pc'[c] /= "marked"
          /\ \E q \in commits' : q.id = Cur(c) /\ q.summaryStatus = "COMPLETED")
         => pc'[c] = "delay"
    /\ (pc[c] = "delay" /\ pc'[c] /= "delay")
          => pc'[c] = "loop" /\ idx'[c] = idx[c] + 1 /\ commits' = commits
    /\ (pc'[c] = "marked" /\ pc[c] /= "marked") => pc[c] = "loop"

C22_SequentialBatch ==
  [](C22_NewestFirst /\ C22_OneAtATime) /\ [][C22_DelayStep]_vars

\* The second generator call of a batch of two dates is in flight, after a
\* success on the first.
C22_Witness ==
  \E c \in Callers :
    /\ pc[c] = "marked"
    /\ idx[c] = 2
    /\ RowOf(batch[c][1]).commitDate > RowOf(batch[c][2]).commitDate
    /\ RowOf(batch[c][1]).summaryStatus = "COMPLETED"

\* C24: a summarize request that runs alone selects at most 10 commits; the
\* success it reports is the number of commits it set COMPLETED, the failed it
\* reports the number it set FAILED, a commit it reverted to PENDING is in
\* neither, and success + failed is at most the number selected.
C24_CountsMatchWrites ==
  \A c \in Callers :
    /\ Len(batch[c]) <= 10
    /\ (pc[c] = "done" /\ result[c].kind = "batch")
         => LET n == Len(batch[c])
                completed == {i \in 1..n : RowOf(batch[c][i]).summaryStatus = "COMPLETED"}
                failed == {i \in 1..n : RowOf(batch[c][i]).summaryStatus = "FAILED"}
                pending == {i \in 1..n : RowOf(batch[c][i]).summaryStatus = "PENDING"}
            IN /\ result[c].success = Cardinality(completed)
               /\ result[c].failed = Cardinality(failed)
               /\ result[c].success + result[c].failed + Cardinality(pending) = n
               /\ result[c].success + result[c].failed <= n

\* Eleven commits were eligible, ten were selected; the request returned
\* after a success, a failure and a rate-limit revert.
C24_Witness ==
  \E c \in Callers :
    /\ pc[c] = "done"
    /\ result[c].kind = "batch"
    /\ Cardinality(commits) > 10
    /\ Len(batch[c]) = 10
    /\ result[c].success > 0
    /\ result[c].failed > 0
    /\ result[c].rateLimited
    /\ RowOf(batch[c][idx[c] - 1]).summaryStatus = "PENDING"

(***************************************************************************)
(* Properties of the repository and credential requests.                   *)
(***************************************************************************)
\* C27: after any interleaving of repository creations and credential
\* deletions every repository with a credentialId references a credential
\* that exists: a repository is created only with an existing credential, and
\* a credential that a repository uses is not deleted, the delete being
\* rejected and the credential and its repositories left as they were.
C27_NoDanglingReference ==
  \A r \in repoTable : r.credentialId /= Null => r.credentialId \in credentials

C27_CrudStep ==
  /\ \A r \in repoTable' \ repoTable :
       r.credentialId /= Null => r.credentialId \in credentials
  /\ \A id \in credentials :
       UsedBy(id) # {} => id \in credentials' /\ repoTable \subseteq repoTable'

C27_CredentialIntegrity == [](C27_NoDanglingReference) /\ [][C27_CrudStep]_vars

(***************************************************************************)
(* Properties of the names an export gives its sheets and files.           *)
(***************************************************************************)
\* C28: for every repository name the three sheet names of its workbook,
\* after the forbidden characters are removed and the name is cut to 31
\* characters, are pairwise distinct, and no workbook fails to build because
\* of a sheet name it already has.
C28_DistinctSheetNames ==
  /\ namePc.state /= "failed"
  /\ \A i, j \in 1..Len(sheetNames) : i < j => sheetNames[i] /= sheetNames[j]

\* C29: an export over several repositories generates one file per
\* repository, under pairwise distinct names, and the file of each repository
\* holds that repository's workbook: none is overwritten by another's.
C29_OneFilePerRepository ==
  namePc.state = "done"
    => /\ Len(namedFiles) = Len(repoNames)
       /\ \A i, j \in 1..Len(namedFiles) : i < j => namedFiles[i] /= namedFiles[j]
       /\ Cardinality(DOMAIN namedDir) = Len(repoNames)
       /\ \A i \in 1..Len(repoNames) : namedDir[FileName(repoNames[i])] = repoNames[i]

(***************************************************************************)
(* Properties of the ticket-key extraction.                                *)
(***************************************************************************)
\* A text that is a key: letters, a dash, digits.
IsKeyText(s) ==
  \E k \in 1..Len(s) :
    /\ k + 2 <= Len(s)
    /\ \A i \in 1..k : IsLetter(s[i])
    /\ s[k + 1] = "-"
    /\ \A i \in (k + 2)..Len(s) : IsDigit(s[i])

Occurs(text, i, j) == i <= j /\ IsKeyText(SubSeq(text, i, j))
HasKey(text) == \E i, j \in 1..Len(text) : Occurs(text, i, j)

\* C21: the commit stores the first occurrence of a prefix, a dash and digits
\* found in its title, or else in its body, with the URL <base>/browse/<key>;
\* when neither holds one, the key and the URL are both null. The title
\* "PROJ-123: fix overflow" gives PROJ-123 and "general cleanup" gives no key.
C21_TicketKey ==
  ticket.parsed =>
    LET title == rawCommit.title
        body == rawCommit.body
        text == IF HasKey(title) THEN title ELSE body
    IN /\ (~HasKey(title) /\ ~HasKey(body))
            => ticket.jiraKey = <<>> /\ ticket.jiraUrl = <<>>
       /\ (HasKey(title) \/ HasKey(body))
            => /\ \E i, j \in 1..Len(text) :
                    /\ Occurs(text, i, j)
                    /\ ticket.jiraKey = SubSeq(text, i, j)
                    /\ \A i2, j2 \in 1..Len(text) : Occurs(text, i2, j2) => i <= i2
               /\ ticket.jiraUrl = <<"<base>", "/browse/", ticket.jiraKey>>
       /\ title = TitleFixOverflow
            => ticket.jiraKey = <<"P", "R", "O", "J", "-", "1", "2", "3">>
       /\ title = TitleCleanup /\ body = <<>> => ticket.jiraKey = <<>>

\* A commit whose title holds no key and whose body does, stored with the
\* key of the body.
C21_Witness ==
  /\ ticket.parsed
  /\ ~HasKey(rawCommit.title)
  /\ HasKey(rawCommit.body)
  /\ ticket.jiraKey = <<"P", "-", "7">>

====
